---- MODULE Spec2Model ----
(***************************************************************************)
(* Monthly-period resolution, budget and visibility rollover, new-         *)
(* subcategory propagation and dual-source spending aggregation of the     *)
(* finance dashboard (src/src/lib/database.ts).                            *)
(*                                                                         *)
(* The remote store is modelled table by table.  Every awaited store call  *)
(* of a handler is one atomic step, so that concurrent handlers interleave *)
(* exactly at the awaits of the TypeScript code.  All rows belong to one   *)
(* signed-in user, so the user_id column is left out.                      *)
(***************************************************************************)
EXTENDS Integers, FiniteSets, Sequences, Bags, TLC

VARIABLES
    monthsUniqueKey,   \* schema: does the store reject a second (year, month) row?
    tzOffset,          \* client environment: local time minus UTC, in hours
    iofails,           \* store: number of calls answered with an error so far
    months,            \* table months: set of [id, year, month, label]
    nextMonthId,       \* serial of months.id
    budgets,           \* table month_budgets: bag of [month_id, subcategory_id, budget_amount]
    subcategories,     \* table subcategories: set of [id, category_id, name, display_order]
    nextSubId,         \* serial of subcategories.id
    entries,           \* table entries: set of [id, month_id, subcategory_id, amount]
    transactions,      \* table transactions: set of [id, occurred_at, amount, subcategory_id]
    nextEntryId,       \* serial of entries.id
    nextTxId,          \* serial of transactions.id
    pc,                \* budget handlers: position of each caller
    call,              \* budget handlers: [op, key] of the running call
    monthRecord,       \* getOrCreateMonth: local monthRecord
    mostRecentMonth,   \* getOrCreateBudgetsForMonth: local mostRecentMonth
    sourceBudgets,     \* copyBudgets: local sourceBudgets
    ret,               \* value returned by the call
    err,               \* error thrown by the call
    calls,             \* number of handler invocations so far
    apc,               \* aggregators: position of each aggregator
    akey,              \* aggregators: the (year, month) both were called with
    atotals,           \* aggregators: the returned totals
    aerr,              \* aggregators: the error each has thrown
    ops,               \* number of operations on the ledger view so far
    visibility,        \* table month_subcategory_visibility: set of [month_id, subcategory_id, is_visible]
    now,               \* client environment: the current (year, month)
    createdIn,         \* per subcategory id, the (year, month) it was created in
    vpc,               \* visibility modal: position of each loadData run
    vkey,              \* visibility modal: the selected month of the run
    vmonth,            \* visibility modal: local monthRecord
    vsubs,             \* visibility modal: the subcategories fetched by the run
    vsource,           \* visibility rollover: the most recent month found
    vrows,             \* visibility rollover: local sourceVisibility
    visMap,            \* visibility modal: the visibility map the run has set
    verr,              \* visibility modal: error caught by the run
    hpc,               \* handleAddSubcategory: position of the handler
    hsub,              \* handleAddSubcategory: id of the subcategory just created
    hmonths,           \* addSubcategoryToCurrentAndFutureMonths: local months
    herr,              \* handleAddSubcategory: error caught by the handler
    hret,              \* addSubcategoryToCurrentAndFutureMonths: the returned rows
    vops,              \* number of operations on the visibility view so far
    availableMonths,   \* App: the list getAvailableMonths returned
    selectedMonth,     \* App: state selectedMonth, as <<year, month>>
    shown,             \* App: the loaded state, with the month it was loaded for
    monthBudgets,      \* MonthsTab: state monthBudgets, the local budget list
    editingBudgets,    \* MonthsTab: state editingBudgets, subcategory id -> text
    savingBudgets,     \* MonthsTab: state savingBudgets, a set of subcategory ids
    saveRun,           \* MonthsTab: the locals and position of each saveBudget run
    saving,            \* visibility modal: state saving, a set of subcategory ids
    toggleRun,         \* visibility modal: the locals and position of each toggle run
    uops               \* number of user actions on the tab and the modal so far

storeVars == <<months, nextMonthId, budgets, subcategories, nextSubId,
               entries, transactions, nextEntryId, nextTxId>>
envVars == <<monthsUniqueKey, tzOffset, iofails>>
budgetVars == <<pc, call, monthRecord, mostRecentMonth, sourceBudgets, ret, err, calls>>
aggVars == <<apc, akey, atotals, aerr, ops>>
visVars == <<visibility, now, createdIn, vpc, vkey, vmonth, vsubs, vsource, vrows,
             visMap, verr, hpc, hsub, hmonths, herr, hret, vops>>
uiVars == <<availableMonths, selectedMonth, shown, monthBudgets, editingBudgets,
            savingBudgets, saveRun, saving, toggleRun, uops>>
vars == <<envVars, storeVars, budgetVars, aggVars, visVars, uiVars>>

----------------------------------------------------------------------------
(* Bounds *)

MaxCalls == 3             \* handler invocations explored per behaviour
MaxAmount == 1            \* budget amounts range over 0..MaxAmount
MaxOps == 4               \* ledger writes, taxonomy edits and loads per behaviour
MaxVisOps == 3            \* modal loads, visibility edits and subcategory creations per behaviour
MaxIoOps == 3             \* handlers started per behaviour over the failing store

Procs == {1, 2}           \* concurrent callers of the budget handlers
Loaders == {1}            \* loadData runs of the visibility modal
Keys == {<<2025, 11>>, <<2025, 12>>, <<2026, 1>>}
Amounts == 0..MaxAmount

Aggregators == {"byCategory", "bySubcategory"}
TzOffsets == {-5, 0, 1}
TxDates == {<<2025, 11, 30>>, <<2025, 12, 3>>, <<2025, 12, 31>>}
SubNames == {"Groceries", "Dining"}
EntryAmounts == {12000}          \* 120.00, in cents
TxAmounts == {4550}              \* 45.50, in cents

----------------------------------------------------------------------------
(* Month keys *)

MonthKey(m) == <<m.year, m.month>>

\* ordering by month first, then by year
KeyLess_MonthFirst(a, b) == a[2] < b[2] \/ (a[2] = b[2] /\ a[1] < b[1])

\* order by year, then by month
KeyLess(a, b) == a[1] < b[1] \/ (a[1] = b[1] /\ a[2] < b[2])

KeyLeq(a, b) == a = b \/ KeyLess(a, b)

NoMonth == [id |-> 0, year |-> 0, month |-> 0, label |-> "null"]

MonthsWithKey(ms, k) == {m \in ms : MonthKey(m) = k}

----------------------------------------------------------------------------
(* Taxonomy *)

Categories == {[id |-> 1, name |-> "Needs"], [id |-> 2, name |-> "Wants"]}

BaseSubcategories ==
    {[id |-> 1, category_id |-> 1, name |-> "Groceries", display_order |-> 1],
     [id |-> 2, category_id |-> 2, name |-> "Dining", display_order |-> 1]}

SubIds == {s.id : s \in BaseSubcategories}

\* the month the subcategories of the initial taxonomy were created in
FirstMonth == <<2025, 1>>

----------------------------------------------------------------------------
(* Table month_budgets *)

BudgetsForMonth(b, monthId) ==
    [r \in {x \in DOMAIN b : x.month_id = monthId} |-> b[r]]

BudgetRowsOf(b, monthId, subId) ==
    {x \in DOMAIN b : x.month_id = monthId /\ x.subcategory_id = subId}

\* number of rows of the table for one (month_id, subcategory_id)
RowCount(b, monthId, subId) ==
    BagCardinality([r \in BudgetRowsOf(b, monthId, subId) |-> b[r]])

Pairs(b) == {<<r.subcategory_id, r.budget_amount>> : r \in DOMAIN b}

\* a copy that forgets the amounts
NewBudgets_ZeroAmount(src, toMonthId) ==
    SetToBag({[month_id |-> toMonthId, subcategory_id |-> r.subcategory_id,
               budget_amount |-> 0] : r \in DOMAIN src})

\* the rows copyBudgets builds for the destination month
NewBudgets(src, toMonthId) ==
    LET rows == {[month_id |-> toMonthId,
                  subcategory_id |-> r.subcategory_id,
                  budget_amount |-> r.budget_amount] : r \in DOMAIN src}
    IN  [n \in rows |->
            BagCardinality([r \in {x \in DOMAIN src :
                                      x.subcategory_id = n.subcategory_id
                                      /\ x.budget_amount = n.budget_amount}
                            |-> src[r]])]

\* the unique key (month_id, subcategory_id, user_id) named by onConflict:
\* a batch insert is rejected as a whole when a row of it meets the key of
\* a stored row or of another row of the batch
InsertConflicts(b, new) ==
    \E n \in DOMAIN new :
        \/ RowCount(b, n.month_id, n.subcategory_id) > 0
        \/ RowCount(new, n.month_id, n.subcategory_id) > 1

\* an upsert whose conflict target never matches: always a new row
UpsertedBudgets_Append(b, monthId, subId, amount) ==
    b (+) SetToBag({[month_id |-> monthId, subcategory_id |-> subId,
                     budget_amount |-> amount]})

UpsertedBudgets(b, monthId, subId, amount) ==
    LET keep == [r \in DOMAIN b \ BudgetRowsOf(b, monthId, subId) |-> b[r]]
    IN  keep (+) SetToBag({[month_id |-> monthId, subcategory_id |-> subId,
                            budget_amount |-> amount]})

\* months that own at least one month_budgets row (the join months(*))
MonthsWithBudgets(ms, b) == {m \in ms : \E r \in DOMAIN b : r.month_id = m.id}

\* order months(year) desc, months(month) desc, limit 1
MostRecentCandidates(ms, b) ==
    {m \in MonthsWithBudgets(ms, b) :
        \A o \in MonthsWithBudgets(ms, b) : KeyLeq(MonthKey(o), MonthKey(m))}

----------------------------------------------------------------------------
(* Budget handlers: getOrCreateBudgetsForMonth and saveBudget *)

NoCall == [op |-> "none", key |-> <<0, 0>>]

Resting(p) == pc[p] \in {"idle", "done", "failed"}

\* a caller enters getOrCreateBudgetsForMonth(year, month)
CallGetOrCreateBudgets(p, k) ==
    /\ Resting(p)
    /\ calls < MaxCalls
    /\ calls' = calls + 1
    /\ pc' = [pc EXCEPT ![p] = "fetchMonth"]
    /\ call' = [call EXCEPT ![p] = [op |-> "budgets", key |-> k]]
    /\ monthRecord' = [monthRecord EXCEPT ![p] = NoMonth]
    /\ mostRecentMonth' = [mostRecentMonth EXCEPT ![p] = NoMonth]
    /\ sourceBudgets' = [sourceBudgets EXCEPT ![p] = EmptyBag]
    /\ ret' = [ret EXCEPT ![p] = EmptyBag]
    /\ err' = [err EXCEPT ![p] = "none"]
    /\ UNCHANGED <<envVars, storeVars, aggVars, visVars>>
    /\ UNCHANGED uiVars

\* getOrCreateMonth: await fetchMonth(year, month); maybeSingle() fails on two rows
FetchMonth(p) ==
    /\ pc[p] = "fetchMonth"
    /\ LET rows == MonthsWithKey(months, call[p].key)
       IN  \/ /\ rows = {}
              /\ pc' = [pc EXCEPT ![p] = "createMonth"]
              /\ UNCHANGED <<monthRecord, err>>
           \/ /\ \E m \in rows : rows = {m}
              /\ pc' = [pc EXCEPT ![p] = "fetchBudgets"]
              /\ monthRecord' = [monthRecord EXCEPT ![p] = CHOOSE m \in rows : TRUE]
              /\ UNCHANGED err
           \/ /\ Cardinality(rows) > 1
              /\ pc' = [pc EXCEPT ![p] = "failed"]
              /\ err' = [err EXCEPT ![p] = "months_multiple_rows"]
              /\ UNCHANGED monthRecord
    /\ UNCHANGED <<envVars, storeVars, call, mostRecentMonth, sourceBudgets, ret, calls, aggVars, visVars>>
    /\ UNCHANGED uiVars

\* a createMonth that labels the new row with its month
CreateMonth_Labelled(p) ==
    /\ pc[p] = "createMonth"
    /\ LET row == [id |-> nextMonthId, year |-> call[p].key[1],
                   month |-> call[p].key[2], label |-> "month"]
       IN  /\ months' = months \cup {row}
           /\ nextMonthId' = nextMonthId + 1
           /\ monthRecord' = [monthRecord EXCEPT ![p] = row]
           /\ pc' = [pc EXCEPT ![p] = "fetchBudgets"]
    /\ UNCHANGED <<envVars, budgets, subcategories, nextSubId, entries, transactions,
                   nextEntryId, nextTxId, call, mostRecentMonth, sourceBudgets, ret,
                   err, calls, aggVars, visVars, uiVars>>

\* getOrCreateMonth: await createMonth(year, month), a plain insert
CreateMonth(p) ==
    /\ pc[p] = "createMonth"
    /\ IF monthsUniqueKey /\ MonthsWithKey(months, call[p].key) # {}
       THEN /\ pc' = [pc EXCEPT ![p] = "failed"]
            /\ err' = [err EXCEPT ![p] = "months_duplicate_key"]
            /\ UNCHANGED <<months, nextMonthId, monthRecord>>
       ELSE LET row == [id |-> nextMonthId, year |-> call[p].key[1],
                        month |-> call[p].key[2], label |-> "null"]
            IN  /\ months' = months \cup {row}
                /\ nextMonthId' = nextMonthId + 1
                /\ monthRecord' = [monthRecord EXCEPT ![p] = row]
                /\ pc' = [pc EXCEPT ![p] = "fetchBudgets"]
                /\ UNCHANGED err
    /\ UNCHANGED <<envVars, budgets, subcategories, nextSubId, entries, transactions,
                   nextEntryId, nextTxId, call, mostRecentMonth, sourceBudgets, ret,
                   calls, aggVars, visVars>>
    /\ UNCHANGED uiVars

\* a resolver that rolls over without looking at the month's own rows
FetchBudgets_Recopy(p) ==
    /\ pc[p] = "fetchBudgets"
    /\ pc' = [pc EXCEPT ![p] = "getMostRecent"]
    /\ UNCHANGED <<envVars, storeVars, call, monthRecord, mostRecentMonth,
                   sourceBudgets, ret, err, calls, aggVars, visVars>>
    /\ UNCHANGED uiVars

\* const existingBudgets = await fetchBudgetsForMonth(monthRecord.id)
FetchBudgets(p) ==
    /\ pc[p] = "fetchBudgets"
    /\ LET existingBudgets == BudgetsForMonth(budgets, monthRecord[p].id)
       IN  IF existingBudgets # EmptyBag
           THEN /\ pc' = [pc EXCEPT ![p] = "done"]
                /\ ret' = [ret EXCEPT ![p] = existingBudgets]
           ELSE /\ pc' = [pc EXCEPT ![p] = "getMostRecent"]
                /\ UNCHANGED ret
    /\ UNCHANGED <<envVars, storeVars, call, monthRecord, mostRecentMonth,
                   sourceBudgets, err, calls, aggVars, visVars>>
    /\ UNCHANGED uiVars

\* single() in place of maybeSingle(): an empty table is an error
GetMostRecentMonthWithBudgets_Single(p) ==
    /\ pc[p] = "getMostRecent"
    /\ IF MostRecentCandidates(months, budgets) = {}
       THEN /\ pc' = [pc EXCEPT ![p] = "failed"]
            /\ err' = [err EXCEPT ![p] = "budgets_no_rows"]
            /\ UNCHANGED mostRecentMonth
       ELSE /\ \E m \in MostRecentCandidates(months, budgets) :
                    mostRecentMonth' = [mostRecentMonth EXCEPT ![p] = m]
            /\ pc' = [pc EXCEPT ![p] = "copyFetch"]
            /\ UNCHANGED err
    /\ UNCHANGED <<envVars, storeVars, call, monthRecord, sourceBudgets, ret, calls,
                   aggVars, visVars>>
    /\ UNCHANGED uiVars

\* const mostRecentMonth = await getMostRecentMonthWithBudgets()
GetMostRecentMonthWithBudgets(p) ==
    /\ pc[p] = "getMostRecent"
    /\ IF MostRecentCandidates(months, budgets) = {}
       THEN /\ pc' = [pc EXCEPT ![p] = "done"]
            /\ ret' = [ret EXCEPT ![p] = EmptyBag]
            /\ UNCHANGED mostRecentMonth
       ELSE /\ \E m \in MostRecentCandidates(months, budgets) :
                    mostRecentMonth' = [mostRecentMonth EXCEPT ![p] = m]
            /\ pc' = [pc EXCEPT ![p] = "copyFetch"]
            /\ UNCHANGED ret
    /\ UNCHANGED <<envVars, storeVars, call, monthRecord, sourceBudgets, err, calls, aggVars, visVars>>
    /\ UNCHANGED uiVars

\* copyBudgets: const sourceBudgets = await fetchBudgetsForMonth(fromMonthId)
CopyFetch(p) ==
    /\ pc[p] = "copyFetch"
    /\ sourceBudgets' = [sourceBudgets EXCEPT ![p] =
                            BudgetsForMonth(budgets, mostRecentMonth[p].id)]
    /\ pc' = [pc EXCEPT ![p] = "copyInsert"]
    /\ UNCHANGED <<envVars, storeVars, call, monthRecord, mostRecentMonth, ret, err,
                   calls, aggVars, visVars>>
    /\ UNCHANGED uiVars

\* copyBudgets: await insert(newBudgets).select()
CopyInsert(p) ==
    /\ pc[p] = "copyInsert"
    /\ LET newBudgets == NewBudgets(sourceBudgets[p], monthRecord[p].id)
       IN  IF InsertConflicts(budgets, newBudgets)
           THEN /\ pc' = [pc EXCEPT ![p] = "failed"]
                /\ err' = [err EXCEPT ![p] = "budgets_duplicate_key"]
                /\ UNCHANGED <<budgets, ret>>
           ELSE /\ budgets' = budgets (+) newBudgets
                /\ ret' = [ret EXCEPT ![p] = newBudgets]
                /\ pc' = [pc EXCEPT ![p] = "done"]
                /\ UNCHANGED err
    /\ UNCHANGED <<envVars, months, nextMonthId, subcategories, nextSubId, entries,
                   transactions, nextEntryId, nextTxId, call, monthRecord,
                   mostRecentMonth, sourceBudgets, calls, aggVars, visVars>>
    /\ UNCHANGED uiVars

\* saveBudget(subcategoryId, value) with a valid value, run without
\* interruption: getOrCreateMonth, then upsertBudget
SaveBudget(k, s, a) ==
    /\ calls < MaxCalls
    /\ calls' = calls + 1
    /\ LET rows == MonthsWithKey(months, k)
           row == [id |-> nextMonthId, year |-> k[1], month |-> k[2], label |-> "null"]
       IN  IF Cardinality(rows) > 1
           THEN UNCHANGED <<months, nextMonthId, budgets>>
           ELSE IF rows = {}
           THEN /\ months' = months \cup {row}
                /\ nextMonthId' = nextMonthId + 1
                /\ budgets' = UpsertedBudgets(budgets, row.id, s, a)
           ELSE /\ budgets' = UpsertedBudgets(budgets, (CHOOSE m \in rows : TRUE).id, s, a)
                /\ UNCHANGED <<months, nextMonthId>>
    /\ UNCHANGED <<envVars, subcategories, nextSubId, entries, transactions,
                   nextEntryId, nextTxId, pc, call, monthRecord, mostRecentMonth,
                   sourceBudgets, ret, err, aggVars, visVars>>
    /\ UNCHANGED uiVars

----------------------------------------------------------------------------
(* Table month_subcategory_visibility *)

VisibilityForMonth(v, monthId) == {r \in v : r.month_id = monthId}

\* the unique key (month_id, subcategory_id, user_id) named by onConflict
VisibilityConflicts(v, new) ==
    \E n \in new :
        \/ \E r \in v : r.month_id = n.month_id /\ r.subcategory_id = n.subcategory_id
        \/ \E n2 \in new : /\ n2 # n
                           /\ n2.month_id = n.month_id
                           /\ n2.subcategory_id = n.subcategory_id

\* setSubcategoryVisibility: upsert on (month_id, subcategory_id, user_id)
UpsertedVisibility(v, monthId, subId, isVisible) ==
    {r \in v : ~(r.month_id = monthId /\ r.subcategory_id = subId)}
        \cup {[month_id |-> monthId, subcategory_id |-> subId, is_visible |-> isVisible]}

\* a copy that marks every subcategory visible
NewVisibility_AllVisible(src, toMonthId) ==
    {[month_id |-> toMonthId, subcategory_id |-> r.subcategory_id,
      is_visible |-> TRUE] : r \in src}

\* the rows copySubcategoryVisibility builds for the destination month
NewVisibility(src, toMonthId) ==
    {[month_id |-> toMonthId, subcategory_id |-> r.subcategory_id,
      is_visible |-> r.is_visible] : r \in src}

\* the month of every visibility row, the (year, month) greatest first:
\* what order(months(year)), order(months(month)), limit(1) may return
MostRecentVisibilityCandidates(ms, v) ==
    LET withRows == {m \in ms : VisibilityForMonth(v, m.id) # {}}
    IN  {m \in withRows :
            \A m2 \in withRows : ~KeyLess(MonthKey(m), MonthKey(m2))}

\* every stored month, whatever its (year, month)
CurrentAndFutureMonths_All(ms, nowKey) == ms

\* year > currentYear or (year = currentYear and month >= currentMonth)
CurrentAndFutureMonths(ms, nowKey) ==
    {m \in ms : \/ m.year > nowKey[1]
                \/ (m.year = nowKey[1] /\ m.month >= nowKey[2])}

\* a batch insert that leaves the rows it meets in place
PropagatedVisibility_Insert(v, ms, subId) ==
    v \cup {[month_id |-> m.id, subcategory_id |-> subId, is_visible |-> TRUE] :
               m \in ms}

\* addSubcategoryToCurrentAndFutureMonths: the batch upsert of
\* {month_id, subcategory_id, is_visible: true} for the fetched months
PropagatedVisibility(v, ms, subId) ==
    {r \in v : ~(r.subcategory_id = subId /\ \E m \in ms : m.id = r.month_id)}
        \cup {[month_id |-> m.id, subcategory_id |-> subId, is_visible |-> TRUE] :
                 m \in ms}

\* a map whose default is hidden
VisMapOf_DefaultHidden(subs, rows) ==
    [id \in {s.id : s \in subs} |->
        \E r \in rows : r.subcategory_id = id /\ r.is_visible]

\* loadData: visMap[sub.id] = visRecord ? visRecord.is_visible : true;
\* find() takes the first record of the subcategory
VisMapOf(subs, rows) ==
    [id \in {s.id : s \in subs} |->
        IF \E r \in rows : r.subcategory_id = id
        THEN (CHOOSE r \in rows : r.subcategory_id = id).is_visible
        ELSE TRUE]

----------------------------------------------------------------------------
(* Dates: 'YYYY-MM-DD' strings as <<year, month, day>>, compared as strings *)

IsLeapYear(y) == (y % 4 = 0 /\ y % 100 # 0) \/ y % 400 = 0

DaysInMonth(y, m) ==
    IF m \in {4, 6, 9, 11} THEN 30
    ELSE IF m = 2 THEN (IF IsLeapYear(y) THEN 29 ELSE 28)
    ELSE 31

PrevDay(d) ==
    IF d[3] > 1 THEN <<d[1], d[2], d[3] - 1>>
    ELSE IF d[2] > 1 THEN <<d[1], d[2] - 1, DaysInMonth(d[1], d[2] - 1)>>
    ELSE <<d[1] - 1, 12, 31>>

RECURSIVE DaysBefore(_, _)
DaysBefore(d, n) == IF n = 0 THEN d ELSE DaysBefore(PrevDay(d), n - 1)

\* new Date(year, monthIndex, day) for day 1 or 0, as the local calendar day
LocalDate(year, monthIndex, day) ==
    LET first == <<year + (monthIndex \div 12), (monthIndex % 12) + 1, 1>>
    IN  DaysBefore(first, 1 - day)

\* local midnight of d, .toISOString().split('T')[0]: the UTC calendar day
IsoDate(d, tz) == DaysBefore(d, 0 - ((0 - tz) \div 24))

DateLeq(a, b) ==
    \/ a[1] < b[1]
    \/ a[1] = b[1] /\ a[2] < b[2]
    \/ a[1] = b[1] /\ a[2] = b[2] /\ a[3] <= b[3]

StartDate(k, tz) == IsoDate(LocalDate(k[1], k[2] - 1, 1), tz)

EndDate(k, tz) == IsoDate(LocalDate(k[1], k[2], 0), tz)

----------------------------------------------------------------------------
(* Ledgers and the spending aggregators *)

\* the embedded subcategory:subcategories(*, category:categories(*)) of a row
JoinedRow(row, subs) ==
    LET ss == {s \in subs : s.id = row.subcategory_id}
        sub == CHOOSE s \in ss : TRUE
        cs == IF ss = {} THEN {} ELSE {c \in Categories : c.id = sub.category_id}
    IN  [id |-> row.id, amount |-> row.amount,
         subcategoryName |-> IF ss = {} THEN "" ELSE sub.name,
         categoryName |-> IF cs = {} THEN "" ELSE (CHOOSE c \in cs : TRUE).name]

\* rows of table transactions with startDate <= occurred_at <= endDate
FetchTransactionsForMonth(txs, subs, k, tz) ==
    LET startDate == StartDate(k, tz)
        endDate == EndDate(k, tz)
    IN  {JoinedRow(t, subs) :
            t \in {x \in txs : /\ DateLeq(startDate, x.occurred_at)
                               /\ DateLeq(x.occurred_at, endDate)}}

\* rows of table entries of one month id
EntriesOfMonth(es, subs, monthId) ==
    {JoinedRow(e, subs) : e \in {x \in es : x.month_id = monthId}}

\* fetchEntriesForMonth run without interruption
FetchEntriesForMonth(ms, es, subs, k) ==
    IF Cardinality(MonthsWithKey(ms, k)) # 1 THEN {}
    ELSE EntriesOfMonth(es, subs, (CHOOSE m \in MonthsWithKey(ms, k) : TRUE).id)

\* a cutoff by the year alone
UseEntries_YearOnly(k) == k[1] <= 2025

UseEntries(k) == k[1] < 2025 \/ (k[1] = 2025 /\ k[2] < 12)

\* getMonthData run without interruption
GetMonthData(k, ms, es, txs, subs, tz) ==
    IF UseEntries(k) THEN FetchEntriesForMonth(ms, es, subs, k)
    ELSE FetchTransactionsForMonth(txs, subs, k, tz)

RECURSIVE SumAmounts(_)
SumAmounts(rows) ==
    IF rows = {} THEN 0
    ELSE LET r == CHOOSE x \in rows : TRUE
         IN  r.amount + SumAmounts(rows \ {r})

\* totals that open an entry for a name met in a row but not initialised
CategoryTotals_KeepUnknown(cats, rows) ==
    [n \in {c.name : c \in cats} \cup {r.categoryName : r \in rows} |->
        [categoryId |-> IF \E c \in cats : c.name = n
                        THEN (CHOOSE c \in cats : c.name = n).id ELSE 0,
         categoryName |-> n,
         total |-> SumAmounts({r \in rows : r.categoryName = n})]]

\* totals of getMonthlySpendingByCategory over the fetched rows
CategoryTotals(cats, rows) ==
    [n \in {c.name : c \in cats} |->
        [categoryId |-> (CHOOSE c \in cats : c.name = n).id,
         categoryName |-> n,
         total |-> SumAmounts({r \in rows : r.categoryName = n})]]

\* fetchSubcategories returns the rows in display_order (ties in any order)
\* and the initialising loop lets a later row overwrite an earlier one of
\* the same name: per name, the row that is written last
LastNamed(subs) ==
    {w \in [{s.name : s \in subs} -> subs] :
        \A n \in DOMAIN w :
            /\ w[n].name = n
            /\ \A s \in subs : s.name = n => s.display_order <= w[n].display_order}

CategoryNameOf(cats, catId) ==
    IF \E c \in cats : c.id = catId
    THEN (CHOOSE c \in cats : c.id = catId).name
    ELSE ""

\* totals of getMonthlySpendingBySubcategory over the fetched rows
SubcategoryTotals(last, cats, rows) ==
    [n \in DOMAIN last |->
        [subcategoryId |-> last[n].id,
         subcategoryName |-> n,
         total |-> SumAmounts({r \in rows : r.subcategoryName = n}),
         categoryName |-> CategoryNameOf(cats, last[n].category_id)]]

\* the two aggregators run without interruption on one store state
GetMonthlySpendingByCategory(k, ms, es, txs, subs, tz) ==
    CategoryTotals(Categories, GetMonthData(k, ms, es, txs, subs, tz))

GetMonthlySpendingBySubcategory(k, last, ms, es, txs, subs, tz) ==
    SubcategoryTotals(last, Categories, GetMonthData(k, ms, es, txs, subs, tz))

\* loadSpendingData: Promise.all starts both aggregators for the selected month
LoadSpendingData(k) ==
    /\ ops < MaxOps
    /\ ops' = ops + 1
    /\ \A a \in Aggregators : apc[a] \in {"idle", "done", "failed"}
    /\ akey' = k
    /\ apc' = [a \in Aggregators |-> "pending"]
    /\ atotals' = [a \in Aggregators |-> <<>>]
    /\ aerr' = [a \in Aggregators |-> "none"]
    /\ UNCHANGED <<envVars, storeVars, budgetVars, visVars>>
    /\ UNCHANGED uiVars

\* an aggregator that resolves a legacy month through getOrCreateMonth
ByCategory_Materialize ==
    /\ apc["byCategory"] = "pending"
    /\ atotals' = [atotals EXCEPT !["byCategory"] =
                      GetMonthlySpendingByCategory(akey, months, entries, transactions,
                                                   subcategories, tzOffset)]
    /\ apc' = [apc EXCEPT !["byCategory"] = "done"]
    /\ IF UseEntries(akey) /\ MonthsWithKey(months, akey) = {}
       THEN /\ months' = months \cup {[id |-> nextMonthId, year |-> akey[1],
                                       month |-> akey[2], label |-> "null"]}
            /\ nextMonthId' = nextMonthId + 1
       ELSE UNCHANGED <<months, nextMonthId>>
    /\ UNCHANGED <<envVars, budgets, subcategories, nextSubId, entries, transactions,
                   nextEntryId, nextTxId, budgetVars, akey, aerr, ops, visVars>>
    /\ UNCHANGED uiVars

\* getMonthlySpendingByCategory(year, month) reads the store and returns
ByCategory ==
    /\ apc["byCategory"] = "pending"
    /\ atotals' = [atotals EXCEPT !["byCategory"] =
                      GetMonthlySpendingByCategory(akey, months, entries, transactions,
                                                   subcategories, tzOffset)]
    /\ apc' = [apc EXCEPT !["byCategory"] = "done"]
    /\ UNCHANGED <<envVars, storeVars, budgetVars, akey, aerr, ops, visVars>>
    /\ UNCHANGED uiVars

\* getMonthlySpendingBySubcategory(year, month) reads the store and returns
BySubcategory ==
    /\ apc["bySubcategory"] = "pending"
    /\ \E last \in LastNamed(subcategories) :
          atotals' = [atotals EXCEPT !["bySubcategory"] =
                         GetMonthlySpendingBySubcategory(akey, last, months, entries,
                                                         transactions, subcategories,
                                                         tzOffset)]
    /\ apc' = [apc EXCEPT !["bySubcategory"] = "done"]
    /\ UNCHANGED <<envVars, storeVars, budgetVars, akey, aerr, ops, visVars>>
    /\ UNCHANGED uiVars

\* getOrCreateMonth run without interruption for a month that has no row
MaterializeMonth(k) ==
    /\ ops < MaxOps
    /\ ops' = ops + 1
    /\ MonthsWithKey(months, k) = {}
    /\ months' = months \cup {[id |-> nextMonthId, year |-> k[1], month |-> k[2],
                               label |-> "null"]}
    /\ nextMonthId' = nextMonthId + 1
    /\ UNCHANGED <<envVars, budgets, subcategories, nextSubId, entries, transactions,
                   nextEntryId, nextTxId, budgetVars, apc, akey, atotals, aerr, visVars>>
    /\ UNCHANGED uiVars

\* handleAdd: the new subcategory goes last in its category
NewSubcategory(subs, id, categoryId, name) ==
    LET orders == {s.display_order : s \in {x \in subs : x.category_id = categoryId}}
        maxSortOrder == IF orders = {} THEN 0
                        ELSE CHOOSE o \in orders : \A o2 \in orders : o2 <= o
    IN  [id |-> id, category_id |-> categoryId, name |-> name,
         display_order |-> maxSortOrder + 1]

\* handleAddSubcategory run without interruption: createSubcategory, then
\* addSubcategoryToCurrentAndFutureMonths(newSub.id)
CreateSubcategory(categoryId, name) ==
    /\ ops < MaxOps
    /\ ops' = ops + 1
    /\ subcategories' = subcategories \cup
                            {NewSubcategory(subcategories, nextSubId, categoryId, name)}
    /\ nextSubId' = nextSubId + 1
    /\ createdIn' = [s \in DOMAIN createdIn \cup {nextSubId} |->
                        IF s = nextSubId THEN now ELSE createdIn[s]]
    /\ visibility' = PropagatedVisibility(visibility,
                                          CurrentAndFutureMonths(months, now), nextSubId)
    /\ UNCHANGED <<envVars, months, nextMonthId, budgets, entries, transactions,
                   nextEntryId, nextTxId, budgetVars, apc, akey, atotals, aerr,
                   now, vpc, vkey, vmonth, vsubs, vsource, vrows, visMap, verr,
                   hpc, hsub, hmonths, herr, hret, vops>>
    /\ UNCHANGED uiVars

\* handleDeleteSubcategory: deleteSubcategory(id); the ledger rows that
\* referenced the subcategory stay and resolve to no subcategory
DeleteSubcategory(s) ==
    /\ ops < MaxOps
    /\ ops' = ops + 1
    /\ subcategories' = subcategories \ {s}
    /\ UNCHANGED <<envVars, months, nextMonthId, budgets, nextSubId, entries,
                   transactions, nextEntryId, nextTxId, budgetVars, apc, akey,
                   atotals, aerr, visVars>>
    /\ UNCHANGED uiVars

\* a row of the legacy ledger arrives (written outside this code base)
AddEntry(m, s, amount) ==
    /\ ops < MaxOps
    /\ ops' = ops + 1
    /\ entries' = entries \cup {[id |-> nextEntryId, month_id |-> m.id,
                                 subcategory_id |-> s.id, amount |-> amount]}
    /\ nextEntryId' = nextEntryId + 1
    /\ UNCHANGED <<envVars, months, nextMonthId, budgets, subcategories, nextSubId,
                   transactions, nextTxId, budgetVars, apc, akey, atotals, aerr, visVars>>
    /\ UNCHANGED uiVars

\* a row of the transaction ledger arrives (written outside this code base)
AddTransaction(d, s, amount) ==
    /\ ops < MaxOps
    /\ ops' = ops + 1
    /\ transactions' = transactions \cup {[id |-> nextTxId, occurred_at |-> d,
                                           amount |-> amount, subcategory_id |-> s.id]}
    /\ nextTxId' = nextTxId + 1
    /\ UNCHANGED <<envVars, months, nextMonthId, budgets, subcategories, nextSubId,
                   entries, nextEntryId, budgetVars, apc, akey, atotals, aerr, visVars>>
    /\ UNCHANGED uiVars

----------------------------------------------------------------------------
(* Visibility modal and new-subcategory propagation *)

modalVars == <<vpc, vkey, vmonth, vsubs, vsource, vrows, visMap, verr>>
handlerVars == <<hpc, hsub, hmonths, herr, hret>>
ledgerVars == <<budgets, entries, transactions, nextEntryId, nextTxId>>

LoaderResting(p) == vpc[p] \in {"idle", "done", "failed"}

\* loadData: const monthRecord = await getOrCreateMonth(year, month), run
\* without interruption
OpenModal(p, k) ==
    /\ vops < MaxVisOps
    /\ vops' = vops + 1
    /\ LoaderResting(p)
    /\ vkey' = [vkey EXCEPT ![p] = k]
    /\ vsource' = [vsource EXCEPT ![p] = NoMonth]
    /\ vrows' = [vrows EXCEPT ![p] = {}]
    /\ LET rows == MonthsWithKey(months, k)
           row == [id |-> nextMonthId, year |-> k[1], month |-> k[2], label |-> "null"]
       IN  IF Cardinality(rows) > 1
           THEN /\ vpc' = [vpc EXCEPT ![p] = "failed"]
                /\ verr' = [verr EXCEPT ![p] = "months_multiple_rows"]
                /\ UNCHANGED <<months, nextMonthId, vmonth>>
           ELSE IF rows = {}
           THEN /\ months' = months \cup {row}
                /\ nextMonthId' = nextMonthId + 1
                /\ vmonth' = [vmonth EXCEPT ![p] = row]
                /\ vpc' = [vpc EXCEPT ![p] = "fetchVisibility"]
                /\ verr' = [verr EXCEPT ![p] = "none"]
           ELSE /\ vmonth' = [vmonth EXCEPT ![p] = CHOOSE m \in rows : TRUE]
                /\ vpc' = [vpc EXCEPT ![p] = "fetchVisibility"]
                /\ verr' = [verr EXCEPT ![p] = "none"]
                /\ UNCHANGED <<months, nextMonthId>>
    /\ UNCHANGED <<envVars, ledgerVars, subcategories, nextSubId, budgetVars, aggVars,
                   visibility, now, createdIn, vsubs, visMap, handlerVars>>
    /\ UNCHANGED uiVars

\* loadData: Promise.all([fetchCategories(), fetchSubcategories(),
\* fetchAllSubcategoryVisibility(monthRecord.id)]); the month's own rows, if
\* any, are the result
FetchVisibility(p) ==
    /\ vpc[p] = "fetchVisibility"
    /\ vsubs' = [vsubs EXCEPT ![p] = subcategories]
    /\ LET existing == VisibilityForMonth(visibility, vmonth[p].id)
       IN  IF existing # {}
           THEN /\ visMap' = [visMap EXCEPT ![p] = VisMapOf(subcategories, existing)]
                /\ vpc' = [vpc EXCEPT ![p] = "done"]
           ELSE /\ vpc' = [vpc EXCEPT ![p] = "mostRecent"]
                /\ UNCHANGED visMap
    /\ UNCHANGED <<envVars, storeVars, budgetVars, aggVars, visibility, now, createdIn,
                   vkey, vmonth, vsource, vrows, verr, handlerVars, vops>>
    /\ UNCHANGED uiVars

\* const mostRecentMonth = await getMostRecentMonthWithVisibility()
GetMostRecentMonthWithVisibility(p) ==
    /\ vpc[p] = "mostRecent"
    /\ IF MostRecentVisibilityCandidates(months, visibility) = {}
       THEN /\ visMap' = [visMap EXCEPT ![p] = VisMapOf(vsubs[p], {})]
            /\ vpc' = [vpc EXCEPT ![p] = "done"]
            /\ UNCHANGED vsource
       ELSE /\ \E m \in MostRecentVisibilityCandidates(months, visibility) :
                    vsource' = [vsource EXCEPT ![p] = m]
            /\ vpc' = [vpc EXCEPT ![p] = "copyFetch"]
            /\ UNCHANGED visMap
    /\ UNCHANGED <<envVars, storeVars, budgetVars, aggVars, visibility, now, createdIn,
                   vkey, vmonth, vsubs, vrows, verr, handlerVars, vops>>
    /\ UNCHANGED uiVars

\* copySubcategoryVisibility: const sourceVisibility = await select where
\* month_id = fromMonthId
CopyVisibilityFetch(p) ==
    /\ vpc[p] = "copyFetch"
    /\ LET sourceVisibility == VisibilityForMonth(visibility, vsource[p].id)
       IN  /\ vrows' = [vrows EXCEPT ![p] = sourceVisibility]
           /\ IF sourceVisibility = {}
              THEN /\ visMap' = [visMap EXCEPT ![p] = VisMapOf(vsubs[p], {})]
                   /\ vpc' = [vpc EXCEPT ![p] = "done"]
              ELSE /\ vpc' = [vpc EXCEPT ![p] = "copyInsert"]
                   /\ UNCHANGED visMap
    /\ UNCHANGED <<envVars, storeVars, budgetVars, aggVars, visibility, now, createdIn,
                   vkey, vmonth, vsubs, vsource, verr, handlerVars, vops>>
    /\ UNCHANGED uiVars

\* copySubcategoryVisibility: await insert(newVisibility).select()
CopyVisibilityInsert(p) ==
    /\ vpc[p] = "copyInsert"
    /\ LET newVisibility == NewVisibility(vrows[p], vmonth[p].id)
       IN  IF VisibilityConflicts(visibility, newVisibility)
           THEN /\ vpc' = [vpc EXCEPT ![p] = "failed"]
                /\ verr' = [verr EXCEPT ![p] = "visibility_duplicate_key"]
                /\ UNCHANGED <<visibility, visMap>>
           ELSE /\ visibility' = visibility \cup newVisibility
                /\ visMap' = [visMap EXCEPT ![p] = VisMapOf(vsubs[p], newVisibility)]
                /\ vpc' = [vpc EXCEPT ![p] = "done"]
                /\ UNCHANGED verr
    /\ UNCHANGED <<envVars, storeVars, budgetVars, aggVars, now, createdIn,
                   vkey, vmonth, vsubs, vsource, vrows, handlerVars, vops>>
    /\ UNCHANGED uiVars

\* handleToggleVisibility run without interruption: getOrCreateMonth, then
\* setSubcategoryVisibility(monthRecord.id, subcategoryId, isVisible)
ToggleVisibility(k, s, isVisible) ==
    /\ vops < MaxVisOps
    /\ vops' = vops + 1
    /\ LET rows == MonthsWithKey(months, k)
           row == [id |-> nextMonthId, year |-> k[1], month |-> k[2], label |-> "null"]
       IN  IF Cardinality(rows) > 1
           THEN UNCHANGED <<months, nextMonthId, visibility>>
           ELSE IF rows = {}
           THEN /\ months' = months \cup {row}
                /\ nextMonthId' = nextMonthId + 1
                /\ visibility' = UpsertedVisibility(visibility, row.id, s.id, isVisible)
           ELSE /\ visibility' = UpsertedVisibility(visibility,
                                     (CHOOSE m \in rows : TRUE).id, s.id, isVisible)
                /\ UNCHANGED <<months, nextMonthId>>
    /\ UNCHANGED <<envVars, ledgerVars, subcategories, nextSubId, budgetVars, aggVars,
                   now, createdIn, modalVars, handlerVars>>
    /\ UNCHANGED uiVars

\* handleAddSubcategory: const newSub = await createSubcategory(...)
AddSubcategory(categoryId, name) ==
    /\ vops < MaxVisOps
    /\ vops' = vops + 1
    /\ hpc \in {"idle", "done", "failed"}
    /\ subcategories' = subcategories \cup
                            {NewSubcategory(subcategories, nextSubId, categoryId, name)}
    /\ nextSubId' = nextSubId + 1
    /\ createdIn' = [s \in DOMAIN createdIn \cup {nextSubId} |->
                        IF s = nextSubId THEN now ELSE createdIn[s]]
    /\ hsub' = nextSubId
    /\ hmonths' = {}
    /\ hpc' = "fetchMonths"
    /\ herr' = "none"
    /\ hret' = {}
    /\ UNCHANGED <<envVars, months, nextMonthId, ledgerVars, budgetVars, aggVars,
                   visibility, now, modalVars>>
    /\ UNCHANGED uiVars

\* addSubcategoryToCurrentAndFutureMonths: await select from months where
\* year > currentYear or (year = currentYear and month >= currentMonth)
PropagateFetchMonths ==
    /\ hpc = "fetchMonths"
    /\ hmonths' = CurrentAndFutureMonths(months, now)
    /\ hpc' = IF CurrentAndFutureMonths(months, now) = {} THEN "done" ELSE "upsert"
    /\ UNCHANGED <<envVars, storeVars, budgetVars, aggVars, visibility, now, createdIn,
                   modalVars, hsub, herr, hret, vops>>
    /\ UNCHANGED uiVars

\* addSubcategoryToCurrentAndFutureMonths: await upsert(visibilityRecords)
PropagateUpsert ==
    /\ hpc = "upsert"
    /\ visibility' = PropagatedVisibility(visibility, hmonths, hsub)
    /\ hret' = {r \in visibility' : /\ r.subcategory_id = hsub
                                   /\ \E m \in hmonths : m.id = r.month_id}
    /\ hpc' = "done"
    /\ UNCHANGED <<envVars, storeVars, budgetVars, aggVars, now, createdIn,
                   modalVars, hsub, hmonths, herr, vops>>
    /\ UNCHANGED uiVars

----------------------------------------------------------------------------
(* Store calls that fail: { data, error } comes back with an error *)

StoreError == "store_error"

\* the positions at which a budget handler awaits a store call
AwaitingStore(p) ==
    pc[p] \in {"fetchMonth", "createMonth", "fetchBudgets", "getMostRecent",
               "copyFetch", "copyInsert"}

\* the error is dropped and the call returns data || []
StoreCallFails_Masked(p) ==
    /\ AwaitingStore(p)
    /\ iofails' = iofails + 1
    /\ pc' = [pc EXCEPT ![p] = "done"]
    /\ ret' = [ret EXCEPT ![p] = EmptyBag]
    /\ UNCHANGED <<monthsUniqueKey, tzOffset, storeVars, call, monthRecord,
                   mostRecentMonth, sourceBudgets, err, calls, aggVars, visVars>>
    /\ UNCHANGED uiVars

\* a copy written row by row: the insert that fails has stored one row
StoreCallFails_Partial(p) ==
    /\ AwaitingStore(p)
    /\ iofails' = iofails + 1
    /\ pc' = [pc EXCEPT ![p] = "failed"]
    /\ err' = [err EXCEPT ![p] = StoreError]
    /\ IF pc[p] = "copyInsert"
       THEN \E r \in DOMAIN NewBudgets(sourceBudgets[p], monthRecord[p].id) :
                budgets' = budgets (+) SetToBag({r})
       ELSE UNCHANGED budgets
    /\ UNCHANGED <<monthsUniqueKey, tzOffset, months, nextMonthId, subcategories,
                   nextSubId, entries, transactions, nextEntryId, nextTxId, call,
                   monthRecord, mostRecentMonth, sourceBudgets, ret, calls, aggVars,
                   visVars, uiVars>>

\* fetchMonth, createMonth, fetchBudgetsForMonth, getMostRecentMonthWithBudgets,
\* copyBudgets: if (error) throw error
StoreCallFails(p) ==
    /\ AwaitingStore(p)
    /\ iofails' = iofails + 1
    /\ pc' = [pc EXCEPT ![p] = "failed"]
    /\ err' = [err EXCEPT ![p] = StoreError]
    /\ UNCHANGED <<monthsUniqueKey, tzOffset, storeVars, call, monthRecord,
                   mostRecentMonth, sourceBudgets, ret, calls, aggVars, visVars>>
    /\ UNCHANGED uiVars

\* fetchCategories, fetchSubcategories, fetchMonth, the ledger fetch of an
\* aggregator: if (error) throw error
AggregatorFails(a) ==
    /\ apc[a] = "pending"
    /\ iofails' = iofails + 1
    /\ apc' = [apc EXCEPT ![a] = "failed"]
    /\ aerr' = [aerr EXCEPT ![a] = StoreError]
    /\ UNCHANGED <<monthsUniqueKey, tzOffset, storeVars, budgetVars, akey, atotals,
                   ops, visVars>>
    /\ UNCHANGED uiVars

\* addSubcategoryToCurrentAndFutureMonths: if (monthsError) throw monthsError;
\* if (error) throw error
PropagatorFails ==
    /\ hpc \in {"fetchMonths", "upsert"}
    /\ iofails' = iofails + 1
    /\ hpc' = "failed"
    /\ herr' = StoreError
    /\ UNCHANGED <<monthsUniqueKey, tzOffset, storeVars, budgetVars, aggVars,
                   visibility, now, createdIn, modalVars, hsub, hmonths, hret, vops>>
    /\ UNCHANGED uiVars

----------------------------------------------------------------------------
(* Month strings and getAvailableMonths *)

\* a string is the sequence of its characters
DigitChar(d) == <<"0", "1", "2", "3", "4", "5", "6", "7", "8", "9">>[d + 1]

\* the UTF-16 code unit, the order Array.prototype.sort() compares by
CharCode(c) == IF c = "-" THEN 45 ELSE 48 + (CHOOSE d \in 0..9 : DigitChar(d) = c)

\* String(n) of a natural number
RECURSIVE NumberString(_)
NumberString(n) ==
    IF n < 10 THEN <<DigitChar(n)>>
    ELSE NumberString(n \div 10) \o <<DigitChar(n % 10)>>

IsDigit(c) == \E d \in 0..9 : DigitChar(d) = c

\* the number a string of digits writes
RECURSIVE DigitsValue(_)
DigitsValue(str) ==
    IF str = <<>> THEN 0
    ELSE 10 * DigitsValue(SubSeq(str, 1, Len(str) - 1))
            + (CHOOSE d \in 0..9 : DigitChar(d) = str[Len(str)])

\* parseFloat(value) of a text without fraction or exponent: an optional
\* minus sign and the longest run of digits after it; NaN when there is none
ParseFloat(value) ==
    LET negative == Len(value) > 0 /\ value[1] = "-"
        rest == IF negative THEN SubSeq(value, 2, Len(value)) ELSE value
        n == CHOOSE k \in 0..Len(rest) :
                 /\ \A i \in 1..k : IsDigit(rest[i])
                 /\ k < Len(rest) => ~IsDigit(rest[k + 1])
        magnitude == DigitsValue(SubSeq(rest, 1, n))
    IN  IF n = 0 THEN [nan |-> TRUE, num |-> 0]
        ELSE [nan |-> FALSE, num |-> IF negative THEN 0 - magnitude ELSE magnitude]

\* str.padStart(len, '0')
RECURSIVE PadStart(_, _)
PadStart(str, len) == IF Len(str) >= len THEN str ELSE PadStart(<<"0">> \o str, len)

\* the 'YYYY-MM-DD' text of a date column
DateString(d) ==
    PadStart(NumberString(d[1]), 4) \o <<"-">> \o PadStart(NumberString(d[2]), 2)
        \o <<"-">> \o PadStart(NumberString(d[3]), 2)

\* a month string built without padStart
YearMonthString_Unpadded(year, month) ==
    NumberString(year) \o <<"-">> \o NumberString(month)

\* `${year}-${String(month).padStart(2, '0')}`
YearMonthString(year, month) ==
    NumberString(year) \o <<"-">> \o PadStart(NumberString(month), 2)

\* a < b as strings
StringLess(a, b) ==
    \E i \in 1..(Len(b)) :
        /\ \A j \in 1..(i - 1) : j <= Len(a) /\ a[j] = b[j]
        /\ \/ i > Len(a)
           \/ (i <= Len(a) /\ CharCode(a[i]) < CharCode(b[i]))

\* Array.from(set).sort()
RECURSIVE SortStrings(_)
SortStrings(strs) ==
    IF strs = {} THEN <<>>
    ELSE LET least == CHOOSE x \in strs : \A y \in strs : y = x \/ StringLess(x, y)
         IN  <<least>> \o SortStrings(strs \ {least})

\* array.reverse()
Reverse(seq) == [i \in 1..Len(seq) |-> seq[Len(seq) + 1 - i]]

\* getAvailableMonths: the months of the transactions, of the months rows
\* and of today, newest first
AvailableMonths(txs, ms, today) ==
    LET fromTransactions == {SubSeq(DateString(t.occurred_at), 1, 7) : t \in txs}
        fromMonths == {YearMonthString(m.year, m.month) : m \in ms}
        currentMonth == YearMonthString(today[1], today[2])
        monthsSet == fromTransactions \cup fromMonths \cup {currentMonth}
    IN  Reverse(SortStrings(monthsSet))

\* loadInitialData: const months = await getAvailableMonths(), both selects
\* answered from one state of the store; setAvailableMonths(months)
GetAvailableMonths ==
    /\ availableMonths' = AvailableMonths(transactions, months, now)
    /\ UNCHANGED <<envVars, storeVars, budgetVars, aggVars, visVars, selectedMonth,
                   shown, monthBudgets, editingBudgets, savingBudgets, saveRun,
                   saving, toggleRun, uops>>

----------------------------------------------------------------------------
(* Client state of App, of MonthsTab and of the visibility modal *)

Savers == {1}             \* saveBudget runs of MonthsTab
Togglers == {1}           \* handleToggleVisibility runs of the modal

\* the texts the budget input hands to handleBudgetChange: empty, a
\* negative number, the amounts
BudgetTexts == {<<>>, <<"-", "1">>} \cup {NumberString(a) : a \in Amounts}

NoSave == [pc |-> "idle", subcategoryId |-> 0, value |-> <<>>, key |-> <<0, 0>>,
           monthRecord |-> NoMonth]

\* before is the map entry handleToggleVisibility found when it was called
NoToggle == [pc |-> "idle", modal |-> 0, subcategoryId |-> 0, isVisible |-> FALSE,
             before |-> FALSE, key |-> <<0, 0>>, monthRecord |-> NoMonth]

NothingShown == [month |-> <<0, 0>>, spendingByCategory |-> <<>>,
                 spendingBySubcategory |-> <<>>, monthTransactions |-> {},
                 monthBudgets |-> EmptyBag]

\* the state of the components when they mount
UiInit ==
    /\ availableMonths = <<>>
    /\ selectedMonth = now
    /\ shown = NothingShown
    /\ monthBudgets = EmptyBag
    /\ editingBudgets = <<>>
    /\ savingBudgets = {}
    /\ saveRun = [i \in Savers |-> NoSave]
    /\ saving = {}
    /\ toggleRun = [i \in Togglers |-> NoToggle]
    /\ uops = 0

\* the state variables of MonthsTab and of the modal
tabVars == <<monthBudgets, editingBudgets, savingBudgets, saveRun>>
toggleVars == <<saving, toggleRun>>

\* App: setSelectedMonth(k), by the month selector or, for the month App
\* starts with, the sign-in; the effect on [user, selectedMonth] starts a
\* loadSpendingData run, whose getOrCreateBudgetsForMonth call is caller p
SelectMonth(p, k) ==
    /\ calls < MaxCalls
    /\ calls' = calls + 1
    /\ pc[p] = "idle"
    /\ IF \A q \in Procs : call[q] = NoCall THEN k = selectedMonth ELSE k # selectedMonth
    /\ selectedMonth' = k
    /\ pc' = [pc EXCEPT ![p] = "fetchMonth"]
    /\ call' = [call EXCEPT ![p] = [op |-> "budgets", key |-> k]]
    /\ monthRecord' = [monthRecord EXCEPT ![p] = NoMonth]
    /\ mostRecentMonth' = [mostRecentMonth EXCEPT ![p] = NoMonth]
    /\ sourceBudgets' = [sourceBudgets EXCEPT ![p] = EmptyBag]
    /\ ret' = [ret EXCEPT ![p] = EmptyBag]
    /\ err' = [err EXCEPT ![p] = "none"]
    /\ UNCHANGED <<envVars, storeVars, aggVars, visVars, availableMonths, shown,
                   tabVars, toggleVars, uops>>

\* loadSpendingData: Promise.all has resolved (the aggregators and
\* fetchTransactionsForMonth read one state of the store); the four setters
\* run with the results of this run
LoadSpendingDataSettles(p) ==
    /\ pc[p] = "done"
    /\ pc' = [pc EXCEPT ![p] = "idle"]
    /\ \E last \in LastNamed(subcategories) :
          shown' = [month |-> call[p].key,
                    spendingByCategory |->
                        GetMonthlySpendingByCategory(call[p].key, months, entries,
                                                     transactions, subcategories, tzOffset),
                    spendingBySubcategory |->
                        GetMonthlySpendingBySubcategory(call[p].key, last, months, entries,
                                                        transactions, subcategories,
                                                        tzOffset),
                    monthTransactions |->
                        FetchTransactionsForMonth(transactions, subcategories,
                                                  call[p].key, tzOffset),
                    monthBudgets |-> ret[p]]
    /\ UNCHANGED <<envVars, storeVars, call, monthRecord, mostRecentMonth,
                   sourceBudgets, ret, err, calls, aggVars, visVars, availableMonths,
                   selectedMonth, tabVars, toggleVars, uops>>

\* loadSpendingData: Promise.all has rejected, because the budget call
\* threw or because another of the four calls did; catch logs the error
LoadSpendingDataFails(p) ==
    /\ \/ pc[p] = "failed" /\ UNCHANGED <<iofails, err>>
       \/ /\ pc[p] = "done"
          /\ iofails' = iofails + 1
          /\ err' = [err EXCEPT ![p] = StoreError]
    /\ pc' = [pc EXCEPT ![p] = "idle"]
    /\ UNCHANGED <<monthsUniqueKey, tzOffset, storeVars, call, monthRecord,
                   mostRecentMonth, sourceBudgets, ret, calls, aggVars, visVars,
                   uiVars>>

\* MonthsTab.loadMonthData: Promise.all has resolved; setMonthBudgets(budgets)
LoadMonthDataSettles(p) ==
    /\ pc[p] = "done"
    /\ pc' = [pc EXCEPT ![p] = "idle"]
    /\ monthBudgets' = ret[p]
    /\ UNCHANGED <<envVars, storeVars, call, monthRecord, mostRecentMonth,
                   sourceBudgets, ret, err, calls, aggVars, visVars, availableMonths,
                   selectedMonth, shown, editingBudgets, savingBudgets, saveRun,
                   toggleVars, uops>>

\* MonthsTab.loadMonthData: catch logs the error
LoadMonthDataFails(p) ==
    /\ pc[p] = "failed"
    /\ pc' = [pc EXCEPT ![p] = "idle"]
    /\ UNCHANGED <<envVars, storeVars, call, monthRecord, mostRecentMonth,
                   sourceBudgets, ret, err, calls, aggVars, visVars, uiVars>>

SaveResting(i) == saveRun[i].pc \in {"idle", "returned", "done", "failed"}

\* the user types a value into the budget input of a subcategory and leaves
\* the field: handleBudgetChange(subcategoryId, value), then handleBudgetBlur
\* (or handleBudgetKeyDown) calls saveBudget(subcategoryId,
\* editingBudgets[subcategoryId]), which runs up to its first await; the
\* input is disabled while the subcategory is being saved
HandleBudgetChangeAndBlur(i, sub, value) ==
    /\ uops' = uops + 1
    /\ SaveResting(i)
    /\ sub \notin savingBudgets
    /\ editingBudgets' = [id \in DOMAIN editingBudgets \cup {sub} |->
                             IF id = sub THEN value ELSE editingBudgets[id]]
    /\ LET numValue == ParseFloat(value)
       IN  IF numValue.nan \/ numValue.num < 0
           THEN /\ saveRun' = [saveRun EXCEPT ![i] =
                                  [NoSave EXCEPT !.pc = "returned",
                                                 !.subcategoryId = sub,
                                                 !.value = value]]
                /\ UNCHANGED savingBudgets
           ELSE /\ saveRun' = [saveRun EXCEPT ![i] =
                                  [NoSave EXCEPT !.pc = "getMonth",
                                                 !.subcategoryId = sub,
                                                 !.value = value,
                                                 !.key = selectedMonth]]
                /\ savingBudgets' = savingBudgets \cup {sub}
    /\ UNCHANGED <<envVars, storeVars, budgetVars, aggVars, visVars, availableMonths,
                   selectedMonth, shown, monthBudgets, toggleVars>>

\* a getOrCreateMonth that is not awaited: the run goes on without the row
SaveGetOrCreateMonth_NotAwaited(i) ==
    /\ saveRun[i].pc = "getMonth"
    /\ saveRun' = [saveRun EXCEPT ![i].pc = "upsert"]
    /\ UNCHANGED <<envVars, storeVars, budgetVars, aggVars, visVars, availableMonths,
                   selectedMonth, shown, monthBudgets, editingBudgets, savingBudgets,
                   toggleVars, uops>>

\* saveBudget: const monthRecord = await getOrCreateMonth(year, month), run
\* without interruption
SaveGetOrCreateMonth(i) ==
    /\ saveRun[i].pc = "getMonth"
    /\ LET rows == MonthsWithKey(months, saveRun[i].key)
           row == [id |-> nextMonthId, year |-> saveRun[i].key[1],
                   month |-> saveRun[i].key[2], label |-> "null"]
       IN  IF Cardinality(rows) > 1
           THEN /\ saveRun' = [saveRun EXCEPT ![i].pc = "failed"]
                /\ savingBudgets' = savingBudgets \ {saveRun[i].subcategoryId}
                /\ UNCHANGED <<months, nextMonthId>>
           ELSE IF rows = {}
           THEN /\ months' = months \cup {row}
                /\ nextMonthId' = nextMonthId + 1
                /\ saveRun' = [saveRun EXCEPT ![i].pc = "upsert",
                                              ![i].monthRecord = row]
                /\ UNCHANGED savingBudgets
           ELSE /\ saveRun' = [saveRun EXCEPT ![i].pc = "upsert",
                                              ![i].monthRecord = CHOOSE m \in rows : TRUE]
                /\ UNCHANGED <<months, nextMonthId, savingBudgets>>
    /\ UNCHANGED <<envVars, budgets, subcategories, nextSubId, entries, transactions,
                   nextEntryId, nextTxId, budgetVars, aggVars, visVars, availableMonths,
                   selectedMonth, shown, monthBudgets, editingBudgets, toggleVars, uops>>

\* a list whose entries of the subcategory all keep the old amount
WithBudgetAmount_Stale(list, monthId, sub, amount) == list

\* setMonthBudgets(prev => ...): the entries of the subcategory take the
\* amount, or a new entry is appended when prev.find() finds none
WithBudgetAmount(list, monthId, sub, amount) ==
    LET Updated(b) == IF b.subcategory_id = sub
                      THEN [b EXCEPT !.budget_amount = amount] ELSE b
        rows == {Updated(b) : b \in DOMAIN list}
    IN  IF \E b \in DOMAIN list : b.subcategory_id = sub
        THEN [n \in rows |->
                 BagCardinality([b \in {x \in DOMAIN list : Updated(x) = n} |-> list[b]])]
        ELSE list (+) SetToBag({[month_id |-> monthId, subcategory_id |-> sub,
                                 budget_amount |-> amount]})

\* saveBudget: await upsertBudget(monthRecord.id, subcategoryId, numValue),
\* then setMonthBudgets, setEditingBudgets and, in finally, setSavingBudgets
SaveUpsert(i) ==
    /\ saveRun[i].pc = "upsert"
    /\ LET sub == saveRun[i].subcategoryId
           numValue == ParseFloat(saveRun[i].value).num
           monthId == saveRun[i].monthRecord.id
       IN  /\ budgets' = UpsertedBudgets(budgets, monthId, sub, numValue)
           /\ monthBudgets' = WithBudgetAmount(monthBudgets, monthId, sub, numValue)
           /\ editingBudgets' = [id \in DOMAIN editingBudgets \ {sub} |->
                                    editingBudgets[id]]
           /\ savingBudgets' = savingBudgets \ {sub}
    /\ saveRun' = [saveRun EXCEPT ![i].pc = "done"]
    /\ UNCHANGED <<envVars, months, nextMonthId, subcategories, nextSubId, entries,
                   transactions, nextEntryId, nextTxId, budgetVars, aggVars, visVars,
                   availableMonths, selectedMonth, shown, toggleVars, uops>>

\* saveBudget: getOrCreateMonth or upsertBudget throws; catch logs the
\* error, finally takes the subcategory out of savingBudgets
SaveBudgetFails(i) ==
    /\ saveRun[i].pc \in {"getMonth", "upsert"}
    /\ iofails' = iofails + 1
    /\ saveRun' = [saveRun EXCEPT ![i].pc = "failed"]
    /\ savingBudgets' = savingBudgets \ {saveRun[i].subcategoryId}
    /\ UNCHANGED <<monthsUniqueKey, tzOffset, storeVars, budgetVars, aggVars, visVars,
                   availableMonths, selectedMonth, shown, monthBudgets, editingBudgets,
                   toggleVars, uops>>

ToggleResting(i) == toggleRun[i].pc \in {"idle", "done", "failed"}

\* handleToggleVisibility(subcategoryId, newValue) up to its first await;
\* the checkbox of a loaded modal hands over the negation of the entry it
\* shows and is disabled while the subcategory is being saved
HandleToggleVisibility(i, p, sub) ==
    /\ ToggleResting(i)
    /\ vpc[p] = "done"
    /\ sub \in DOMAIN visMap[p]
    /\ sub \notin saving
    /\ LET newValue == ~visMap[p][sub]
           isVisible == (newValue = TRUE)
       IN  /\ toggleRun' = [toggleRun EXCEPT ![i] =
                                [pc |-> "getMonth", modal |-> p, subcategoryId |-> sub,
                                 isVisible |-> isVisible, before |-> visMap[p][sub],
                                 key |-> vkey[p], monthRecord |-> NoMonth]]
           /\ visMap' = [visMap EXCEPT ![p][sub] = isVisible]
    /\ saving' = saving \cup {sub}
    /\ uops' = uops + 1
    /\ UNCHANGED <<envVars, storeVars, budgetVars, aggVars, visibility, now, createdIn,
                   vpc, vkey, vmonth, vsubs, vsource, vrows, verr, handlerVars, vops,
                   availableMonths, selectedMonth, shown, tabVars>>

\* handleToggleVisibility: const monthRecord = await getOrCreateMonth(year,
\* month), run without interruption
ToggleGetOrCreateMonth(i) ==
    /\ toggleRun[i].pc = "getMonth"
    /\ LET rows == MonthsWithKey(months, toggleRun[i].key)
           row == [id |-> nextMonthId, year |-> toggleRun[i].key[1],
                   month |-> toggleRun[i].key[2], label |-> "null"]
       IN  IF rows = {}
           THEN /\ months' = months \cup {row}
                /\ nextMonthId' = nextMonthId + 1
                /\ toggleRun' = [toggleRun EXCEPT ![i].pc = "upsert",
                                                  ![i].monthRecord = row]
           ELSE /\ toggleRun' = [toggleRun EXCEPT ![i].pc = "upsert",
                                                  ![i].monthRecord =
                                                      CHOOSE m \in rows : TRUE]
                /\ UNCHANGED <<months, nextMonthId>>
    /\ UNCHANGED <<envVars, budgets, subcategories, nextSubId, entries, transactions,
                   nextEntryId, nextTxId, budgetVars, aggVars, visVars, availableMonths,
                   selectedMonth, shown, tabVars, saving, uops>>

\* handleToggleVisibility: await setSubcategoryVisibility(monthRecord.id,
\* subcategoryId, isVisible); finally takes the subcategory out of saving
ToggleUpsert(i) ==
    /\ toggleRun[i].pc = "upsert"
    /\ visibility' = UpsertedVisibility(visibility, toggleRun[i].monthRecord.id,
                                        toggleRun[i].subcategoryId,
                                        toggleRun[i].isVisible)
    /\ toggleRun' = [toggleRun EXCEPT ![i].pc = "done"]
    /\ saving' = saving \ {toggleRun[i].subcategoryId}
    /\ UNCHANGED <<envVars, storeVars, budgetVars, aggVars, now, createdIn, modalVars,
                   handlerVars, vops, availableMonths, selectedMonth, shown, tabVars,
                   uops>>

\* a catch that leaves the optimistic value in the map
ToggleFails_NoRevert(i) ==
    /\ toggleRun[i].pc \in {"getMonth", "upsert"}
    /\ iofails' = iofails + 1
    /\ toggleRun' = [toggleRun EXCEPT ![i].pc = "failed"]
    /\ saving' = saving \ {toggleRun[i].subcategoryId}
    /\ UNCHANGED <<monthsUniqueKey, tzOffset, storeVars, budgetVars, aggVars, visVars,
                   availableMonths, selectedMonth, shown, tabVars, uops>>

\* handleToggleVisibility: getOrCreateMonth or setSubcategoryVisibility
\* throws; catch sets the entry to !isVisible, finally takes the
\* subcategory out of saving
ToggleFails(i) ==
    /\ toggleRun[i].pc \in {"getMonth", "upsert"}
    /\ iofails' = iofails + 1
    /\ toggleRun' = [toggleRun EXCEPT ![i].pc = "failed"]
    /\ LET p == toggleRun[i].modal
           sub == toggleRun[i].subcategoryId
       IN  visMap' = [visMap EXCEPT ![p] =
                         [id \in DOMAIN visMap[p] \cup {sub} |->
                             IF id = sub THEN ~toggleRun[i].isVisible
                             ELSE visMap[p][id]]]
    /\ saving' = saving \ {toggleRun[i].subcategoryId}
    /\ UNCHANGED <<monthsUniqueKey, tzOffset, storeVars, budgetVars, aggVars,
                   visibility, now, createdIn, vpc, vkey, vmonth, vsubs, vsource,
                   vrows, verr, handlerVars, vops, availableMonths, selectedMonth,
                   shown, tabVars, uops>>

----------------------------------------------------------------------------
(* Specification of the budget handlers *)

Init ==
    /\ monthsUniqueKey \in BOOLEAN
    /\ tzOffset = 0
    /\ iofails = 0
    /\ months = {}
    /\ nextMonthId = 1
    /\ budgets = EmptyBag
    /\ subcategories = BaseSubcategories
    /\ nextSubId = 3
    /\ entries = {}
    /\ transactions = {}
    /\ nextEntryId = 1
    /\ nextTxId = 1
    /\ pc = [p \in Procs |-> "idle"]
    /\ call = [p \in Procs |-> NoCall]
    /\ monthRecord = [p \in Procs |-> NoMonth]
    /\ mostRecentMonth = [p \in Procs |-> NoMonth]
    /\ sourceBudgets = [p \in Procs |-> EmptyBag]
    /\ ret = [p \in Procs |-> EmptyBag]
    /\ err = [p \in Procs |-> "none"]
    /\ calls = 0
    /\ apc = [a \in Aggregators |-> "idle"]
    /\ akey = <<0, 0>>
    /\ atotals = [a \in Aggregators |-> <<>>]
    /\ aerr = [a \in Aggregators |-> "none"]
    /\ ops = 0
    /\ visibility = {}
    /\ now = <<2025, 12>>
    /\ createdIn = [s \in SubIds |-> FirstMonth]
    /\ vpc = [p \in Loaders |-> "idle"]
    /\ vkey = [p \in Loaders |-> <<0, 0>>]
    /\ vmonth = [p \in Loaders |-> NoMonth]
    /\ vsubs = [p \in Loaders |-> {}]
    /\ vsource = [p \in Loaders |-> NoMonth]
    /\ vrows = [p \in Loaders |-> {}]
    /\ visMap = [p \in Loaders |-> <<>>]
    /\ verr = [p \in Loaders |-> "none"]
    /\ hpc = "idle"
    /\ hsub = 0
    /\ hmonths = {}
    /\ herr = "none"
    /\ hret = {}
    /\ vops = 0
    /\ UiInit

Next ==
    \/ \E p \in Procs, k \in Keys : CallGetOrCreateBudgets(p, k)
    \/ \E k \in Keys, s \in SubIds, a \in Amounts : SaveBudget(k, s, a)
    \/ \E p \in Procs : FetchMonth(p)
    \/ \E p \in Procs : CreateMonth(p)
    \/ \E p \in Procs : FetchBudgets(p)
    \/ \E p \in Procs : GetMostRecentMonthWithBudgets(p)
    \/ \E p \in Procs : CopyFetch(p)
    \/ \E p \in Procs : CopyInsert(p)

Spec == Init /\ [][Next]_vars

----------------------------------------------------------------------------
(* Specification of the spending aggregators *)

AggInit ==
    /\ monthsUniqueKey = TRUE
    /\ tzOffset \in TzOffsets
    /\ iofails = 0
    /\ months = {}
    /\ nextMonthId = 1
    /\ budgets = EmptyBag
    /\ subcategories = BaseSubcategories
    /\ nextSubId = 3
    /\ entries = {}
    /\ transactions = {}
    /\ nextEntryId = 1
    /\ nextTxId = 1
    /\ pc = [p \in Procs |-> "idle"]
    /\ call = [p \in Procs |-> NoCall]
    /\ monthRecord = [p \in Procs |-> NoMonth]
    /\ mostRecentMonth = [p \in Procs |-> NoMonth]
    /\ sourceBudgets = [p \in Procs |-> EmptyBag]
    /\ ret = [p \in Procs |-> EmptyBag]
    /\ err = [p \in Procs |-> "none"]
    /\ calls = 0
    /\ apc = [a \in Aggregators |-> "idle"]
    /\ akey = <<0, 0>>
    /\ atotals = [a \in Aggregators |-> <<>>]
    /\ aerr = [a \in Aggregators |-> "none"]
    /\ ops = 0
    /\ visibility = {}
    /\ now = <<2025, 12>>
    /\ createdIn = [s \in SubIds |-> FirstMonth]
    /\ vpc = [p \in Loaders |-> "idle"]
    /\ vkey = [p \in Loaders |-> <<0, 0>>]
    /\ vmonth = [p \in Loaders |-> NoMonth]
    /\ vsubs = [p \in Loaders |-> {}]
    /\ vsource = [p \in Loaders |-> NoMonth]
    /\ vrows = [p \in Loaders |-> {}]
    /\ visMap = [p \in Loaders |-> <<>>]
    /\ verr = [p \in Loaders |-> "none"]
    /\ hpc = "idle"
    /\ hsub = 0
    /\ hmonths = {}
    /\ herr = "none"
    /\ hret = {}
    /\ vops = 0
    /\ UiInit

AggNext ==
    \/ \E k \in Keys : LoadSpendingData(k)
    \/ ByCategory
    \/ BySubcategory
    \/ \E k \in Keys : MaterializeMonth(k)
    \/ \E c \in Categories, n \in SubNames : CreateSubcategory(c.id, n)
    \/ \E s \in subcategories : DeleteSubcategory(s)
    \/ \E m \in months, s \in subcategories, a \in EntryAmounts : AddEntry(m, s, a)
    \/ \E d \in TxDates, s \in subcategories, a \in TxAmounts : AddTransaction(d, s, a)

AggSpec == AggInit /\ [][AggNext]_vars

----------------------------------------------------------------------------
(* Specification of the visibility modal and the propagator *)

VisInit ==
    /\ monthsUniqueKey = TRUE
    /\ tzOffset = 0
    /\ iofails = 0
    /\ months = {}
    /\ nextMonthId = 1
    /\ budgets = EmptyBag
    /\ subcategories = BaseSubcategories
    /\ nextSubId = 3
    /\ entries = {}
    /\ transactions = {}
    /\ nextEntryId = 1
    /\ nextTxId = 1
    /\ pc = [p \in Procs |-> "idle"]
    /\ call = [p \in Procs |-> NoCall]
    /\ monthRecord = [p \in Procs |-> NoMonth]
    /\ mostRecentMonth = [p \in Procs |-> NoMonth]
    /\ sourceBudgets = [p \in Procs |-> EmptyBag]
    /\ ret = [p \in Procs |-> EmptyBag]
    /\ err = [p \in Procs |-> "none"]
    /\ calls = 0
    /\ apc = [a \in Aggregators |-> "idle"]
    /\ akey = <<0, 0>>
    /\ atotals = [a \in Aggregators |-> <<>>]
    /\ aerr = [a \in Aggregators |-> "none"]
    /\ ops = 0
    /\ visibility = {}
    /\ now \in Keys
    /\ createdIn = [s \in SubIds |-> FirstMonth]
    /\ vpc = [p \in Loaders |-> "idle"]
    /\ vkey = [p \in Loaders |-> <<0, 0>>]
    /\ vmonth = [p \in Loaders |-> NoMonth]
    /\ vsubs = [p \in Loaders |-> {}]
    /\ vsource = [p \in Loaders |-> NoMonth]
    /\ vrows = [p \in Loaders |-> {}]
    /\ visMap = [p \in Loaders |-> <<>>]
    /\ verr = [p \in Loaders |-> "none"]
    /\ hpc = "idle"
    /\ hsub = 0
    /\ hmonths = {}
    /\ herr = "none"
    /\ hret = {}
    /\ vops = 0
    /\ UiInit

VisNext ==
    \/ \E p \in Loaders, k \in Keys : OpenModal(p, k)
    \/ \E p \in Loaders : FetchVisibility(p)
    \/ \E p \in Loaders : GetMostRecentMonthWithVisibility(p)
    \/ \E p \in Loaders : CopyVisibilityFetch(p)
    \/ \E p \in Loaders : CopyVisibilityInsert(p)
    \/ \E k \in Keys, s \in subcategories, b \in BOOLEAN : ToggleVisibility(k, s, b)
    \/ \E c \in Categories, n \in SubNames : AddSubcategory(c.id, n)
    \/ PropagateFetchMonths
    \/ PropagateUpsert

VisSpec == VisInit /\ [][VisNext]_vars

----------------------------------------------------------------------------
(* Specification of the month list *)

MonthListInit == VisInit

MonthListNext ==
    \/ \E k \in Keys : MaterializeMonth(k)
    \/ \E d \in TxDates, s \in subcategories, a \in TxAmounts : AddTransaction(d, s, a)
    \/ GetAvailableMonths

MonthListSpec == MonthListInit /\ [][MonthListNext]_vars

----------------------------------------------------------------------------
(* Specification of App's loads of the selected month *)

AppInit == Init /\ monthsUniqueKey

AppNext ==
    \/ \E p \in Procs, k \in Keys : SelectMonth(p, k)
    \/ \E k \in Keys, s \in SubIds : SaveBudget(k, s, MaxAmount)
    \/ \E p \in Procs : FetchMonth(p)
    \/ \E p \in Procs : CreateMonth(p)
    \/ \E p \in Procs : FetchBudgets(p)
    \/ \E p \in Procs : GetMostRecentMonthWithBudgets(p)
    \/ \E p \in Procs : CopyFetch(p)
    \/ \E p \in Procs : CopyInsert(p)
    \/ \E p \in Procs : StoreCallFails(p)
    \/ \E p \in Procs : LoadSpendingDataSettles(p)
    \/ \E p \in Procs : LoadSpendingDataFails(p)

AppSpec == AppInit /\ [][AppNext]_vars

----------------------------------------------------------------------------
(* Specification of the handlers over a store whose calls may fail *)

\* the handlers started so far, of all kinds
Started == calls + ops + vops + uops

\* one caller of the budget handlers, one load and one subcategory
\* creation at a time are enough to meet every store call
IoProcs == {1}

IoInit == Init /\ monthsUniqueKey

IoNext ==
    \/ /\ Started < MaxIoOps
       /\ \/ \E p \in IoProcs, k \in Keys : CallGetOrCreateBudgets(p, k)
          \/ \E k \in Keys, s \in SubIds : SaveBudget(k, s, MaxAmount)
          \/ \E k \in Keys : LoadSpendingData(k)
          \/ \E c \in Categories, n \in SubNames : AddSubcategory(c.id, n)
    \/ \E p \in IoProcs : FetchMonth(p)
    \/ \E p \in IoProcs : CreateMonth(p)
    \/ \E p \in IoProcs : FetchBudgets(p)
    \/ \E p \in IoProcs : GetMostRecentMonthWithBudgets(p)
    \/ \E p \in IoProcs : CopyFetch(p)
    \/ \E p \in IoProcs : CopyInsert(p)
    \/ ByCategory
    \/ BySubcategory
    \/ PropagateFetchMonths
    \/ PropagateUpsert
    \/ \E p \in IoProcs : StoreCallFails(p)
    \/ \E a \in Aggregators : AggregatorFails(a)
    \/ PropagatorFails

IoSpec == IoInit /\ [][IoNext]_vars

----------------------------------------------------------------------------
(* Specification of MonthsTab and of the visibility modal *)

MaxUiOps == 4             \* month changes, budget edits, modal loads and toggles per behaviour

\* the months the selector offers while MonthsTab is shown
TabMonths == {<<2025, 12>>, <<2026, 1>>}

ClientInit == Init /\ monthsUniqueKey

ClientNext ==
    \/ /\ Started < MaxUiOps
       /\ \/ \E p \in IoProcs, k \in TabMonths : SelectMonth(p, k)
          \/ \E i \in Savers, s \in SubIds, v \in BudgetTexts :
                HandleBudgetChangeAndBlur(i, s, v)
          \/ \E p \in Loaders : OpenModal(p, selectedMonth)
          \/ \E i \in Togglers, p \in Loaders, s \in SubIds :
                HandleToggleVisibility(i, p, s)
    \/ \E p \in IoProcs : FetchMonth(p)
    \/ \E p \in IoProcs : CreateMonth(p)
    \/ \E p \in IoProcs : FetchBudgets(p)
    \/ \E p \in IoProcs : GetMostRecentMonthWithBudgets(p)
    \/ \E p \in IoProcs : CopyFetch(p)
    \/ \E p \in IoProcs : CopyInsert(p)
    \/ \E p \in IoProcs : StoreCallFails(p)
    \/ \E p \in IoProcs : LoadMonthDataSettles(p)
    \/ \E p \in IoProcs : LoadMonthDataFails(p)
    \/ \E i \in Savers : SaveGetOrCreateMonth(i)
    \/ \E i \in Savers : SaveUpsert(i)
    \/ \E i \in Savers : SaveBudgetFails(i)
    \/ \E p \in Loaders : FetchVisibility(p)
    \/ \E p \in Loaders : GetMostRecentMonthWithVisibility(p)
    \/ \E p \in Loaders : CopyVisibilityFetch(p)
    \/ \E p \in Loaders : CopyVisibilityInsert(p)
    \/ \E i \in Togglers : ToggleGetOrCreateMonth(i)
    \/ \E i \in Togglers : ToggleUpsert(i)
    \/ \E i \in Togglers : ToggleFails(i)

ClientSpec == ClientInit /\ [][ClientNext]_vars

----------------------------------------------------------------------------
(* Claims about the Month Registry and the Budget Rollover Resolver *)

MonthErrors == {"months_duplicate_key", "months_multiple_rows"}

\* the caller's getOrCreateMonth has returned a row
MonthResolved(p) == call[p].op = "budgets" /\ monthRecord[p] # NoMonth

\* the caller's getOrCreateMonth has thrown
MonthFailed(p) == pc[p] = "failed" /\ err[p] \in MonthErrors

\* the call of p ended by rolling over from mostRecentMonth[p]
RolledOver(p) ==
    /\ pc[p] = "done"
    /\ call[p].op = "budgets"
    /\ mostRecentMonth[p] # NoMonth

\* the call of p ended by returning the month's own rows
ReturnedExisting(p) ==
    /\ pc[p] = "done"
    /\ call[p].op = "budgets"
    /\ mostRecentMonth[p] = NoMonth
    /\ ret[p] # EmptyBag

\* C1: concurrent getOrCreateMonth calls for one (year, month) leave exactly
\* one Month row with that key and every caller receives that same row: no
\* key has two rows, no resolution fails, and callers of the same key hold
\* the same row.
C1_OneMonthRowForAllCallers ==
    /\ \A k \in Keys : Cardinality(MonthsWithKey(months, k)) <= 1
    /\ \A p \in Procs : ~MonthFailed(p)
    /\ \A p, q \in Procs :
          (MonthResolved(p) /\ MonthResolved(q) /\ call[p].key = call[q].key)
              => monthRecord[p] = monthRecord[q]

\* C2: in every reachable state the table month_budgets holds at most one
\* row per (monthId, subcategoryId), also after two rollovers into the same
\* empty month raced.
C2_OneBudgetRowPerPair ==
    \A r \in DOMAIN budgets : RowCount(budgets, r.month_id, r.subcategory_id) = 1

\* two callers rolled over into the same month, both having seen it empty:
\* one copied, the other's insert met the copies
C2_RacedRollover ==
    \E p, q \in Procs :
        /\ p # q
        /\ call[p].key = call[q].key
        /\ RolledOver(p)
        /\ ret[p] # EmptyBag
        /\ pc[q] = "failed"
        /\ err[q] = "budgets_duplicate_key"
        /\ sourceBudgets[q] # EmptyBag
        /\ BudgetsForMonth(budgets, monthRecord[q].id) = ret[p]

\* C3: when the target month already has a budget row, the call returns
\* exactly the month's rows at that step and ends there, and the table
\* month_budgets is left as it was.
C3_ExistingBudgetsAuthoritative ==
    [][\A p \in Procs :
          (/\ pc[p] = "fetchBudgets"
           /\ pc'[p] # "fetchBudgets"
           /\ BudgetsForMonth(budgets, monthRecord[p].id) # EmptyBag)
          => /\ pc'[p] = "done"
             /\ ret'[p] = BudgetsForMonth(budgets, monthRecord[p].id)
             /\ budgets' = budgets]_vars

\* a month whose only rows have amount 0 was returned as it is, while
\* another month holds a non-zero budget
C3_ZeroBudgetsReturned ==
    \E p \in Procs :
        /\ ReturnedExisting(p)
        /\ ret[p] = BudgetsForMonth(budgets, monthRecord[p].id)
        /\ \A r \in DOMAIN ret[p] : r.budget_amount = 0
        /\ \E r \in DOMAIN budgets :
              r.month_id # monthRecord[p].id /\ r.budget_amount # 0

\* C4: a rollover copies from the nearest month that is chronologically
\* earlier than the target and has a budget row; a month later than the
\* target is never the source.
C4_SourceIsNearestEarlier ==
    \A p \in Procs :
        RolledOver(p) =>
            /\ KeyLess(MonthKey(mostRecentMonth[p]), call[p].key)
            /\ \A m \in MonthsWithBudgets(months, budgets) :
                  KeyLess(MonthKey(m), call[p].key)
                      => KeyLeq(MonthKey(m), MonthKey(mostRecentMonth[p]))

\* C5: a rollover into an empty target month leaves the target with the
\* (subcategoryId, budgetAmount) pairs of the source month as copyBudgets
\* read them (the pairs the source holds, unless the source was edited in
\* between), every copy carries the target monthId, the returned list is
\* exactly the copies, and the source month's rows are unchanged.
C5_RolloverCopiesSource ==
    [][\A p \in Procs :
          (/\ pc[p] = "copyInsert"
           /\ pc'[p] = "done"
           /\ BudgetsForMonth(budgets, monthRecord[p].id) = EmptyBag)
          => LET target == monthRecord[p].id
                 source == mostRecentMonth[p].id
             IN  /\ Pairs(BudgetsForMonth(budgets', target)) = Pairs(sourceBudgets[p])
                 /\ BagCardinality(BudgetsForMonth(budgets', target))
                       = BagCardinality(sourceBudgets[p])
                 /\ sourceBudgets[p] = BudgetsForMonth(budgets, source)
                       => Pairs(BudgetsForMonth(budgets', target))
                             = Pairs(BudgetsForMonth(budgets', source))
                 /\ ret'[p] = BudgetsForMonth(budgets', target)
                 /\ \A r \in DOMAIN ret'[p] : r.month_id = target
                 /\ BudgetsForMonth(budgets', source) = BudgetsForMonth(budgets, source)
                 /\ \A m \in months :
                       m.id # target
                           => BudgetsForMonth(budgets', m.id) = BudgetsForMonth(budgets, m.id)]_vars

\* a rollover copied two rows with different amounts into its target
C5_TwoRowsCopied ==
    \E p \in Procs :
        /\ RolledOver(p)
        /\ mostRecentMonth[p].id # monthRecord[p].id
        /\ BagCardinality(ret[p]) = 2
        /\ \E r1, r2 \in DOMAIN ret[p] : r1.budget_amount # r2.budget_amount
        /\ ret[p] = BudgetsForMonth(budgets, monthRecord[p].id)
        /\ Pairs(ret[p]) = Pairs(BudgetsForMonth(budgets, mostRecentMonth[p].id))

\* C6: the source chosen by getMostRecentMonthWithBudgets is a month with
\* the maximum (year, month), year compared first, among all months owning
\* a budget row, whether before or after the target.
C6_SourceIsGlobalMax ==
    [][\A p \in Procs :
          (pc[p] = "getMostRecent" /\ pc'[p] = "copyFetch")
          => /\ mostRecentMonth'[p] \in MonthsWithBudgets(months, budgets)
             /\ \A m \in MonthsWithBudgets(months, budgets) :
                   \/ m.year < mostRecentMonth'[p].year
                   \/ /\ m.year = mostRecentMonth'[p].year
                      /\ m.month <= mostRecentMonth'[p].month]_vars

\* the chosen source lies after the target although an earlier month with
\* a larger month number has budgets too
C6_LaterSourceChosen ==
    \E p \in Procs :
        /\ pc[p] = "copyFetch"
        /\ mostRecentMonth[p].year > call[p].key[1]
        /\ \E m \in MonthsWithBudgets(months, budgets) :
              /\ m.year < mostRecentMonth[p].year
              /\ m.month > mostRecentMonth[p].month

\* C7: while no month has a budget row, getOrCreateBudgetsForMonth ends
\* with an empty list and no row created, and the absence of budget rows
\* raises no error (a call can fail only in its month resolution).
C7_NoBudgetsAnywhere ==
    \A p \in Procs :
        (call[p].op = "budgets" /\ budgets = EmptyBag)
            => /\ pc[p] = "done" => (ret[p] = EmptyBag /\ err[p] = "none")
               /\ pc[p] = "failed" => err[p] \in MonthErrors
               /\ pc[p] \notin {"copyFetch", "copyInsert"}

\* a call ended with the empty list on an empty table
C7_EmptyListReturned ==
    \E p \in Procs :
        /\ pc[p] = "done"
        /\ call[p].op = "budgets"
        /\ monthRecord[p] # NoMonth
        /\ ret[p] = EmptyBag
        /\ budgets = EmptyBag

----------------------------------------------------------------------------
(* Claims about the Dual-Source Spending Aggregator *)

AggregatesDone == \A a \in Aggregators : apc[a] = "done"

RECURSIVE SumTotals(_, _)
SumTotals(names, t) ==
    IF names = {} THEN 0
    ELSE LET n == CHOOSE x \in names : TRUE
         IN  t[n].total + SumTotals(names \ {n}, t)

\* C8: in the results of one load, every category's total equals the sum of
\* the totals of the subcategory entries whose categoryName is that category.
C8_CategoryTotalIsSumOfSubcategories ==
    AggregatesDone =>
        \A c \in Categories :
            atotals["byCategory"][c.name].total =
                SumTotals({n \in DOMAIN atotals["bySubcategory"] :
                              atotals["bySubcategory"][n].categoryName = c.name},
                          atotals["bySubcategory"])

\* C9: whenever an aggregator returns for the selected month, getMonthData
\* and the returned totals are those of the same store without its
\* Transaction rows if the month is before 2025-12, and those of the same
\* store without its Entry rows if the month is 2025-12 or later.
C9_CutoffSelectsLedger ==
    [][\A a \in Aggregators :
          (apc[a] = "pending" /\ apc'[a] = "done") =>
              LET legacy == akey[1] < 2025 \/ (akey[1] = 2025 /\ akey[2] < 12)
                  es == IF legacy THEN entries ELSE {}
                  txs == IF legacy THEN {} ELSE transactions
              IN  /\ GetMonthData(akey, months, entries, transactions,
                                  subcategories, tzOffset)
                        = GetMonthData(akey, months, es, txs, subcategories, tzOffset)
                  /\ a = "byCategory" =>
                        atotals'[a] = GetMonthlySpendingByCategory(
                                          akey, months, es, txs, subcategories, tzOffset)
                  /\ a = "bySubcategory" =>
                        atotals'[a] \in {GetMonthlySpendingBySubcategory(
                                             akey, last, months, es, txs,
                                             subcategories, tzOffset) :
                                         last \in LastNamed(subcategories)}]_vars

\* a load of 2025-11 returned the Entry amount of Groceries although a
\* Transaction of Groceries is dated in that month
C9_LegacyMonthLoaded ==
    /\ AggregatesDone
    /\ akey = <<2025, 11>>
    /\ \E m \in MonthsWithKey(months, akey), e \in entries, t \in transactions :
          /\ e.month_id = m.id
          /\ e.subcategory_id = 1
          /\ t.subcategory_id = 1
          /\ t.occurred_at = <<2025, 11, 30>>
          /\ atotals["bySubcategory"]["Groceries"].total = e.amount
          /\ atotals["byCategory"]["Needs"].total = e.amount

\* C10: in the current regime a Transaction row is fetched for (year, month)
\* exactly when its occurredAt lies in that calendar month, whatever the
\* client's time-zone offset.
C10_TransactionsCountedInOwnMonth ==
    \A k \in Keys, t \in transactions :
        ~(k[1] < 2025 \/ (k[1] = 2025 /\ k[2] < 12))
            => (JoinedRow(t, subcategories)
                    \in FetchTransactionsForMonth(transactions, subcategories, k, tzOffset)
                <=> (t.occurred_at[1] = k[1] /\ t.occurred_at[2] = k[2]))

----------------------------------------------------------------------------
(* Claims about visibility resolution and the New-Subcategory Propagator *)

\* addSubcategoryToCurrentAndFutureMonths has run to its end for subcategory id
Propagated(id) == id \notin SubIds /\ id \in DOMAIN createdIn /\ (id # hsub \/ hpc = "done")

NoRowAnywhere(id) == ~\E r \in visibility : r.subcategory_id = id

NeverHidden(id) == ~\E r \in visibility : r.subcategory_id = id /\ ~r.is_visible

\* C11: once the propagator has run for a new subcategory, a resolution of a
\* month before its creation month does not show it as visible, and a
\* resolution of its creation month or of a later month shows it as visible
\* (as long as no one has hidden it).
C11_NoRetroactiveVisibility ==
    \A p \in Loaders :
        vpc[p] = "done" =>
            \A id \in DOMAIN visMap[p] :
                Propagated(id) =>
                    IF KeyLess(vkey[p], createdIn[id])
                    THEN visMap[p][id] # TRUE
                    ELSE NeverHidden(id) => visMap[p][id] = TRUE

\* C12: the propagator reads exactly the stored months at or after the
\* creation month of the subcategory, and its upsert leaves one row with
\* is_visible = true for the subcategory in each of them and changes no
\* other row, so no row of a month before the creation month.
C12_PropagatorWritesCurrentAndFuture ==
    [][/\ (hpc = "fetchMonths" /\ hpc' # "fetchMonths") =>
              hmonths' = {m \in months : KeyLeq(createdIn[hsub], MonthKey(m))}
       /\ (hpc = "upsert" /\ hpc' = "done") =>
              \A m \in months :
                  IF m \in hmonths
                  THEN /\ {r \in VisibilityForMonth(visibility', m.id) :
                              r.subcategory_id = hsub}
                            = {[month_id |-> m.id, subcategory_id |-> hsub,
                                is_visible |-> TRUE]}
                       /\ {r \in VisibilityForMonth(visibility', m.id) :
                              r.subcategory_id # hsub}
                            = {r \in VisibilityForMonth(visibility, m.id) :
                                  r.subcategory_id # hsub}
                  ELSE VisibilityForMonth(visibility', m.id)
                           = VisibilityForMonth(visibility, m.id)]_vars

\* the propagator wrote a row for a later month and none for an earlier one
C12_EarlierMonthUntouched ==
    /\ hpc = "done"
    /\ \E m1 \in months, m2 \in months :
          /\ KeyLess(MonthKey(m1), createdIn[hsub])
          /\ KeyLess(createdIn[hsub], MonthKey(m2))
          /\ VisibilityForMonth(visibility, m1.id) # {}
          /\ \A r \in VisibilityForMonth(visibility, m1.id) : r.subcategory_id # hsub
          /\ [month_id |-> m2.id, subcategory_id |-> hsub, is_visible |-> TRUE]
                 \in visibility

\* C13: a subcategory without a visibility row in any month is resolved as
\* visible in every month.
C13_DefaultVisible ==
    \A p \in Loaders :
        \A id \in DOMAIN visMap[p] :
            NoRowAnywhere(id) => visMap[p][id] = TRUE

\* a month resolved by a copy shows a subcategory that has no row anywhere
C13_UntouchedShownAfterCopy ==
    \E p \in Loaders :
        /\ vpc[p] = "done"
        /\ vsource[p] # NoMonth
        /\ VisibilityForMonth(visibility, vmonth[p].id) # {}
        /\ \E id \in DOMAIN visMap[p] : NoRowAnywhere(id) /\ visMap[p][id] = TRUE

\* C14: a resolution that finds the month without rows takes as source a
\* month with rows of the greatest (year, month), writes for every source
\* row a row of the same subcategory and flag under the target month and
\* resolves the subcategories from those rows; a resolution that finds rows
\* of the month resolves from them alone and writes nothing.
C14_VisibilityCopiedVerbatim ==
    [][\A p \in Loaders :
          /\ (vpc[p] = "mostRecent" /\ vpc'[p] = "copyFetch") =>
                /\ VisibilityForMonth(visibility, vsource'[p].id) # {}
                /\ \A m \in months :
                       VisibilityForMonth(visibility, m.id) # {}
                           => ~KeyLess(MonthKey(vsource'[p]), MonthKey(m))
          /\ (vpc[p] = "copyInsert" /\ vpc'[p] = "done") =>
                /\ {<<r.subcategory_id, r.is_visible>> :
                        r \in VisibilityForMonth(visibility', vmonth[p].id)
                                  \ VisibilityForMonth(visibility, vmonth[p].id)}
                     = {<<r.subcategory_id, r.is_visible>> : r \in vrows[p]}
                /\ VisibilityForMonth(visibility, vmonth[p].id)
                       \subseteq VisibilityForMonth(visibility', vmonth[p].id)
                /\ \A m \in months :
                       m.id # vmonth[p].id =>
                           VisibilityForMonth(visibility', m.id)
                               = VisibilityForMonth(visibility, m.id)
                /\ \A r \in vrows[p] :
                       r.subcategory_id \in DOMAIN visMap'[p] =>
                           visMap'[p][r.subcategory_id] = r.is_visible
          /\ (vpc[p] = "fetchVisibility" /\ vpc'[p] = "done") =>
                /\ visibility' = visibility
                /\ \A r \in VisibilityForMonth(visibility, vmonth[p].id) :
                       r.subcategory_id \in DOMAIN visMap'[p] =>
                           visMap'[p][r.subcategory_id] = r.is_visible]_vars

\* a first access copied a hidden row from another month, and the
\* subcategory resolves as hidden
C14_HiddenCopied ==
    \E p \in Loaders :
        /\ vpc[p] = "done"
        /\ vsource[p] # NoMonth
        /\ vsource[p].id # vmonth[p].id
        /\ \E id \in DOMAIN visMap[p] :
              /\ visMap[p][id] = FALSE
              /\ [month_id |-> vsource[p].id, subcategory_id |-> id,
                  is_visible |-> FALSE] \in vrows[p]
              /\ [month_id |-> vmonth[p].id, subcategory_id |-> id,
                  is_visible |-> FALSE] \in visibility

\* C15: every row of month_budgets or month_subcategory_visibility of a
\* stored month refers to a subcategory created in or before that month.
C15_RowsOfSubcategoriesCreatedByThen ==
    \A m \in months :
        \A id \in {r.subcategory_id : r \in DOMAIN BudgetsForMonth(budgets, m.id)}
                    \cup {r.subcategory_id : r \in VisibilityForMonth(visibility, m.id)} :
            /\ id \in DOMAIN createdIn
            /\ KeyLeq(createdIn[id], MonthKey(m))

----------------------------------------------------------------------------
(* Claims about the initialised mappings, stale references and the legacy sums *)

Legacy(k) == k[1] < 2025 \/ (k[1] = 2025 /\ k[2] < 12)

Returns(a) == apc[a] = "pending" /\ apc'[a] = "done"

\* the ledger records of subcategory id, or of category id, in month k
RecordsOfSubcategory(k, id) ==
    IF Legacy(k)
    THEN {e \in entries : /\ e.subcategory_id = id
                          /\ \E m \in MonthsWithKey(months, k) : e.month_id = m.id}
    ELSE {t \in transactions : /\ t.subcategory_id = id
                               /\ <<t.occurred_at[1], t.occurred_at[2]>> = k}

RecordsOfCategory(k, id) ==
    UNION {RecordsOfSubcategory(k, s.id) : s \in {x \in subcategories : x.category_id = id}}

\* C16: the result by category has an entry for every stored category and
\* the result by subcategory an entry for every stored subcategory, carrying
\* the name of the category of its own category_id; an entry without a
\* ledger record of the month has total 0.
C16_EveryCategoryAndSubcategoryListed ==
    [][/\ Returns("byCategory") =>
             \A c \in Categories :
                 \E n \in DOMAIN atotals'["byCategory"] :
                     /\ atotals'["byCategory"][n].categoryId = c.id
                     /\ RecordsOfCategory(akey, c.id) = {}
                            => atotals'["byCategory"][n].total = 0
       /\ Returns("bySubcategory") =>
             \A s \in subcategories :
                 \E n \in DOMAIN atotals'["bySubcategory"] :
                     /\ atotals'["bySubcategory"][n].subcategoryId = s.id
                     /\ atotals'["bySubcategory"][n].categoryName
                            = CategoryNameOf(Categories, s.category_id)
                     /\ RecordsOfSubcategory(akey, s.id) = {}
                            => atotals'["bySubcategory"][n].total = 0]_vars

\* the ledger rows whose subcategory is not in the store
Stale(rows) == {r \in rows : \A s \in subcategories : s.id # r.subcategory_id}

\* C17: an aggregator returns the totals of the store without the Entry and
\* Transaction rows that refer to no stored subcategory.
C17_StaleReferencesDropped ==
    [][/\ Returns("byCategory") =>
             atotals'["byCategory"] =
                 GetMonthlySpendingByCategory(akey, months, entries \ Stale(entries),
                                              transactions \ Stale(transactions),
                                              subcategories, tzOffset)
       /\ Returns("bySubcategory") =>
             atotals'["bySubcategory"] \in
                 {GetMonthlySpendingBySubcategory(akey, last, months,
                                                  entries \ Stale(entries),
                                                  transactions \ Stale(transactions),
                                                  subcategories, tzOffset) :
                      last \in LastNamed(subcategories)}]_vars

\* both aggregators returned for a month that holds a ledger record of the
\* deleted subcategory Groceries, beside a record of a stored subcategory
C17_StaleRecordInLoadedMonth ==
    /\ AggregatesDone
    /\ "Groceries" \notin DOMAIN atotals["bySubcategory"]
    /\ RecordsOfSubcategory(akey, 1) # {}
    /\ \E s \in subcategories :
          /\ RecordsOfSubcategory(akey, s.id) # {}
          /\ atotals["bySubcategory"][s.name].total > 0
          /\ atotals["byCategory"][CategoryNameOf(Categories, s.category_id)].total > 0

\* C18: for a legacy month with a Month row, the total of every subcategory
\* is the sum of the month's Entry rows of that subcategory and the total of
\* every category the sum of the month's Entry rows whose subcategory has
\* that category_id.
C18_LegacyTotalsAreEntrySums ==
    [][(Legacy(akey) /\ MonthsWithKey(months, akey) # {}) =>
          /\ Returns("byCategory") =>
                \A c \in Categories :
                    atotals'["byCategory"][c.name].total
                        = SumAmounts(RecordsOfCategory(akey, c.id))
          /\ Returns("bySubcategory") =>
                \A s \in subcategories :
                    atotals'["bySubcategory"][s.name].total
                        = SumAmounts(RecordsOfSubcategory(akey, s.id))]_vars

\* C19: after an aggregator has returned for a month before 2025-12, the
\* month has a Month row.
C19_LegacyAggregationCreatesMonth ==
    [][\A a \in Aggregators :
          (Returns(a) /\ Legacy(akey)) => MonthsWithKey(months', akey) # {}]_vars

\* C19 as amended: an aggregator never writes to table months, and for a
\* month before 2025-12 without a Month row every total it returns is 0.
C19_LegacyAggregationOnlyLooksUp ==
    [][\A a \in Aggregators :
          Returns(a) =>
              /\ months' = months
              /\ nextMonthId' = nextMonthId
              /\ (Legacy(akey) /\ MonthsWithKey(months, akey) = {}) =>
                     \A n \in DOMAIN atotals'[a] : atotals'[a][n].total = 0]_vars

\* both aggregators returned for a legacy month that has no Month row while
\* the legacy ledger holds rows of another month
C19_LegacyMonthWithoutRow ==
    /\ AggregatesDone
    /\ Legacy(akey)
    /\ MonthsWithKey(months, akey) = {}
    /\ entries # {}
    /\ \A a \in Aggregators : \A n \in DOMAIN atotals[a] : atotals[a][n].total = 0

----------------------------------------------------------------------------
(* Claims about store I/O failures *)

\* C20: a store call that comes back with an error changes no table and ends
\* the running getOrCreateMonth / getOrCreateBudgetsForMonth, aggregator or
\* propagator in failure with that error and without a result; a failed
\* operation makes no further step, it only leaves the failure when the
\* caller starts the operation anew.
C20_StoreErrorsPropagate ==
    [][/\ iofails' # iofails =>
             /\ storeVars' = storeVars
             /\ visibility' = visibility
             /\ \/ \E p \in Procs :
                      /\ AwaitingStore(p)
                      /\ pc'[p] = "failed"
                      /\ err'[p] = StoreError
                      /\ ret'[p] = EmptyBag
                \/ \E a \in Aggregators :
                      /\ apc[a] = "pending"
                      /\ apc'[a] = "failed"
                      /\ aerr'[a] = StoreError
                      /\ atotals'[a] = <<>>
                \/ /\ hpc \in {"fetchMonths", "upsert"}
                   /\ hpc' = "failed"
                   /\ herr' = StoreError
       /\ \A p \in Procs :
             (pc[p] = "failed" /\ pc'[p] # "failed") =>
                 (pc'[p] = "fetchMonth" /\ calls' = calls + 1)
       /\ \A a \in Aggregators :
             (apc[a] = "failed" /\ apc'[a] # "failed") =>
                 (apc'[a] = "pending" /\ ops' = ops + 1)
       /\ (hpc = "failed" /\ hpc' # "failed") =>
             (hpc' = "fetchMonths" /\ vops' = vops + 1)]_vars

\* getOrCreateBudgetsForMonth has failed on a store error after its month
\* was created, and an aggregator and the propagator have failed as well
C20_EveryOperationFailed ==
    /\ \E p \in Procs :
          /\ pc[p] = "failed"
          /\ err[p] = StoreError
          /\ monthRecord[p] \in months
          /\ ret[p] = EmptyBag
    /\ \E a \in Aggregators : apc[a] = "failed" /\ aerr[a] = StoreError
    /\ hpc = "failed"
    /\ herr = StoreError

----------------------------------------------------------------------------
(* Claims about the life of Month rows and about edits racing a rollover *)

\* C23: Month rows are only created, never deleted or re-keyed: every step
\* keeps every stored Month row as it is, so the set of materialized
\* (year, month) keys only grows, and every row a step adds has label null.
C23_MonthRowsOnlyAdded ==
    [][/\ months \subseteq months'
       /\ {MonthKey(m) : m \in months} \subseteq {MonthKey(m) : m \in months'}
       /\ \A m \in months' \ months : m.label = "null"]_vars

\* two months were created on first reference, one by getOrCreateMonth inside
\* getOrCreateBudgetsForMonth, and both are still stored
C23_TwoMonthsCreated ==
    \E p \in Procs :
        /\ pc[p] = "done"
        /\ monthRecord[p] \in months
        /\ monthRecord[p].id = 2
        /\ monthRecord[p].label = "null"
        /\ \E m \in months : m.id = 1 /\ MonthKey(m) # MonthKey(monthRecord[p])

\* C26: when a budget edit for the target month lands between the emptiness
\* check and the copy of a rollover (no other rollover runs for that month),
\* the copy still succeeds, every row the edit wrote stays the only row of
\* its subcategory, and the other subcategories of the source are copied.
C26_RolloverKeepsConcurrentEdit ==
    [][\A p \in Procs :
          (/\ pc[p] = "copyInsert"
           /\ pc'[p] # "copyInsert"
           /\ \A q \in Procs \ {p} : call[q].key # call[p].key
           /\ BudgetsForMonth(budgets, monthRecord[p].id) # EmptyBag)
          => LET target == monthRecord[p].id
                 edited == DOMAIN BudgetsForMonth(budgets, target)
             IN  /\ pc'[p] = "done"
                 /\ err'[p] = "none"
                 /\ \A r \in edited :
                       /\ r \in DOMAIN budgets'
                       /\ RowCount(budgets', target, r.subcategory_id) = 1
                 /\ \A r \in DOMAIN sourceBudgets[p] :
                       (\A e \in edited : e.subcategory_id # r.subcategory_id)
                           => [month_id |-> target,
                               subcategory_id |-> r.subcategory_id,
                               budget_amount |-> r.budget_amount] \in DOMAIN budgets']_vars

----------------------------------------------------------------------------
(* Claims about re-running the propagator *)

\* C30: after addSubcategoryToCurrentAndFutureMonths has written, running it
\* again for the same subcategory over the same months would leave the
\* visibility table as it is, and each of those months holds exactly one row
\* of the subcategory, the visible one that is returned; when no month at or
\* after the current one is materialized the call writes nothing and
\* returns the empty list.
C30_PropagatorIdempotent ==
    [][/\ (hpc = "upsert" /\ hpc' = "done") =>
             /\ PropagatedVisibility(visibility', hmonths, hsub) = visibility'
             /\ \A m \in hmonths :
                   {r \in visibility' : r.month_id = m.id /\ r.subcategory_id = hsub}
                       = {[month_id |-> m.id, subcategory_id |-> hsub,
                           is_visible |-> TRUE]}
             /\ hret' = {[month_id |-> m.id, subcategory_id |-> hsub,
                          is_visible |-> TRUE] : m \in hmonths}
             /\ {r \in visibility' : r.subcategory_id # hsub}
                   = {r \in visibility : r.subcategory_id # hsub}
       /\ (hpc = "fetchMonths" /\ hpc' = "done") =>
             /\ CurrentAndFutureMonths(months, now) = {}
             /\ visibility' = visibility
             /\ hret' = {}]_vars

\* the propagator has written the new subcategory into two months, in one
\* of which another subcategory is hidden
C30_TwoMonthsWritten ==
    /\ hpc = "done"
    /\ Cardinality(hmonths) = 2
    /\ Cardinality(hret) = 2
    /\ hret \subseteq visibility
    /\ \E r \in visibility : r.subcategory_id # hsub /\ ~r.is_visible

----------------------------------------------------------------------------
(* Claims about the list of available months *)

IsYearMonthString(str) ==
    /\ Len(str) = 7
    /\ str[5] = "-"
    /\ \A i \in {1, 2, 3, 4, 6, 7} : IsDigit(str[i])
    /\ DigitsValue(SubSeq(str, 6, 7)) \in 1..12

\* the (year, month) a YYYY-MM string names
KeyOfString(str) == <<DigitsValue(SubSeq(str, 1, 4)), DigitsValue(SubSeq(str, 6, 7))>>

----------------------------------------------------------------------------
(* Claims about the data App holds for the selected month *)

\* C25: once no loadSpendingData run is in flight, the totals, transactions
\* and budgets App holds are not those of a month other than the selected
\* one, whatever the order of the responses and also after a failed load.
C25_StateIsOfSelectedMonth ==
    (\A p \in Procs : pc[p] = "idle")
        => (shown = NothingShown \/ shown.month = selectedMonth)

----------------------------------------------------------------------------
(* Claims about a rollover that fails *)

\* C27: a rollover is all-or-nothing.  A step of getOrCreateBudgetsForMonth
\* either writes no budget row or is the one insert of copyBudgets, which
\* adds to the target the complete copy of the rows read from the source
\* and nothing else; the step on which the call fails writes nothing, so a failed
\* call leaves no part of a copy behind.  Whatever failed before, a call
\* that completes leaves the target with rows unless no month has any.
C27_RolloverAllOrNothing ==
    [][\A p \in Procs :
          (call[p].op = "budgets" /\ pc'[p] # pc[p] /\ AwaitingStore(p)) =>
              LET target == monthRecord[p].id
              IN  /\ \/ budgets' = budgets
                     \/ /\ pc[p] = "copyInsert"
                        /\ pc'[p] = "done"
                        /\ \E added \in SubBag(budgets') :
                              /\ budgets' = budgets (+) added
                              /\ \A r \in DOMAIN added : r.month_id = target
                              /\ Pairs(added) = Pairs(sourceBudgets[p])
                              /\ BagCardinality(added) = BagCardinality(sourceBudgets[p])
                              /\ sourceBudgets[p] # EmptyBag
                  /\ pc'[p] = "failed" => budgets' = budgets
                  /\ pc'[p] = "done" =>
                        \/ BudgetsForMonth(budgets', target) # EmptyBag
                        \/ /\ pc[p] = "getMostRecent"
                           /\ MostRecentCandidates(months, budgets) = {}]_vars

\* a call failed on a store error; a later call then rolled the source
\* month over into the target, which holds the complete copy
C27_RolledOverAfterFailure ==
    \E p \in Procs :
        /\ iofails = 1
        /\ \A a \in Aggregators : apc[a] = "idle"
        /\ hpc = "idle"
        /\ calls = 3
        /\ RolledOver(p)
        /\ mostRecentMonth[p].id # monthRecord[p].id
        /\ ret[p] # EmptyBag
        /\ BudgetsForMonth(budgets, monthRecord[p].id) = ret[p]
        /\ Pairs(ret[p]) = Pairs(BudgetsForMonth(budgets, mostRecentMonth[p].id))

----------------------------------------------------------------------------
(* Claims about the handlers of MonthsTab and of the visibility modal *)

\* the row getOrCreateMonth returned for key: a stored Month row of that key
ResolvedFor(row, key) == row \in months /\ MonthKey(row) = key

\* C21: whenever getOrCreateBudgetsForMonth, saveBudget or
\* handleToggleVisibility stands at a store call that takes the month's id,
\* its getOrCreateMonth has returned the stored Month row of the requested
\* (year, month); hence every budget and visibility row names a stored Month.
C21_MonthResolvedBeforeUse ==
    /\ \A p \in Procs :
          pc[p] \in {"fetchBudgets", "getMostRecent", "copyFetch", "copyInsert"}
              => ResolvedFor(monthRecord[p], call[p].key)
    /\ \A i \in Savers :
          saveRun[i].pc = "upsert" => ResolvedFor(saveRun[i].monthRecord, saveRun[i].key)
    /\ \A i \in Togglers :
          toggleRun[i].pc = "upsert"
              => ResolvedFor(toggleRun[i].monthRecord, toggleRun[i].key)
    /\ \A r \in DOMAIN budgets : \E m \in months : m.id = r.month_id
    /\ \A r \in visibility : \E m \in months : m.id = r.month_id

\* the three handlers stand at their writes at once, each with its month
C21_AllThreeAtTheirWrites ==
    /\ \E p \in Procs : pc[p] = "fetchBudgets" /\ monthRecord[p] \in months
    /\ \E i \in Savers : saveRun[i].pc = "upsert" /\ saveRun[i].monthRecord \in months
    /\ \E i \in Togglers :
          toggleRun[i].pc = "upsert" /\ toggleRun[i].monthRecord \in months

\* the rows of a budget table other than those of (monthId, subId)
OtherBudgets(b, monthId, subId) ==
    [r \in DOMAIN b \ BudgetRowsOf(b, monthId, subId) |-> b[r]]

\* C22: upsertBudget and setSubcategoryVisibility leave exactly one row for
\* their (monthId, subcategoryId), holding the new value, whether or not a
\* row was there, and leave every other row as it was; the same call once
\* more would change nothing.
C22_UpsertReplacesOneRow ==
    [][/\ \A i \in Savers :
             (saveRun[i].pc = "upsert" /\ saveRun'[i].pc = "done") =>
                 LET monthId == saveRun[i].monthRecord.id
                     subId == saveRun[i].subcategoryId
                     amount == ParseFloat(saveRun[i].value).num
                 IN  /\ BudgetRowsOf(budgets', monthId, subId)
                           = {[month_id |-> monthId, subcategory_id |-> subId,
                               budget_amount |-> amount]}
                     /\ RowCount(budgets', monthId, subId) = 1
                     /\ OtherBudgets(budgets', monthId, subId)
                           = OtherBudgets(budgets, monthId, subId)
                     /\ UpsertedBudgets(budgets', monthId, subId, amount) = budgets'
                     /\ visibility' = visibility
       /\ \A i \in Togglers :
             (toggleRun[i].pc = "upsert" /\ toggleRun'[i].pc = "done") =>
                 LET monthId == toggleRun[i].monthRecord.id
                     subId == toggleRun[i].subcategoryId
                     Same(r) == r.month_id = monthId /\ r.subcategory_id = subId
                 IN  /\ {r \in visibility' : Same(r)}
                           = {[month_id |-> monthId, subcategory_id |-> subId,
                               is_visible |-> toggleRun[i].isVisible]}
                     /\ {r \in visibility' : ~Same(r)} = {r \in visibility : ~Same(r)}
                     /\ UpsertedVisibility(visibility', monthId, subId,
                                           toggleRun[i].isVisible) = visibility'
                     /\ budgets' = budgets]_vars

\* a save and a toggle have both written, next to rows of other
\* subcategories, and the saved amount is not the first the pair has had
C22_SavedAndToggled ==
    /\ \E i \in Savers :
          /\ saveRun[i].pc = "done"
          /\ [month_id |-> saveRun[i].monthRecord.id,
              subcategory_id |-> saveRun[i].subcategoryId,
              budget_amount |-> 0] \in DOMAIN budgets
          /\ \E r \in DOMAIN budgets : r.subcategory_id # saveRun[i].subcategoryId
          /\ \E r \in DOMAIN budgets : r.budget_amount # 0
    /\ \E i \in Togglers :
          /\ toggleRun[i].pc = "done"
          /\ [month_id |-> toggleRun[i].monthRecord.id,
              subcategory_id |-> toggleRun[i].subcategoryId,
              is_visible |-> toggleRun[i].isVisible] \in visibility

\* C28: when a toggle fails in getOrCreateMonth or setSubcategoryVisibility,
\* the visibility map entry of the subcategory is back at the value it had
\* when the toggle began, every other entry is as it was, and no table has
\* changed; failed or not, the toggle ends with the subcategory out of the
\* saving set.
C28_FailedToggleReverts ==
    [][\A i \in Togglers :
          LET p == toggleRun[i].modal
              sub == toggleRun[i].subcategoryId
          IN  /\ (toggleRun[i].pc \in {"getMonth", "upsert"}
                      /\ toggleRun'[i].pc = "failed") =>
                     /\ visMap'[p][sub] = toggleRun[i].before
                     /\ DOMAIN visMap'[p] = DOMAIN visMap[p]
                     /\ \A o \in DOMAIN visMap[p] \ {sub} : visMap'[p][o] = visMap[p][o]
                     /\ visibility' = visibility
                     /\ sub \notin saving'
              /\ (toggleRun[i].pc = "upsert" /\ toggleRun'[i].pc = "done") =>
                     /\ sub \notin saving'
                     /\ visMap' = visMap]_vars

\* a toggle that hid a subcategory failed in setSubcategoryVisibility, after
\* its month was resolved: the entry shows visible again, nothing is saving
C28_ToggleFailedAtWrite ==
    \E i \in Togglers :
        /\ toggleRun[i].pc = "failed"
        /\ toggleRun[i].monthRecord \in months
        /\ toggleRun[i].before
        /\ ~toggleRun[i].isVisible
        /\ visMap[toggleRun[i].modal][toggleRun[i].subcategoryId]
        /\ saving = {}
        /\ visibility = {}

\* the entries of a local budget list for one subcategory
EntriesOf(list, sub) == [b \in {x \in DOMAIN list : x.subcategory_id = sub} |-> list[b]]

\* C29: saveBudget called with a text that is not a number or is negative
\* returns at once: no run is waiting on the store, no table, budget list
\* or saving set has changed and the text stays in the editing state.  A
\* save that succeeds leaves exactly one entry of the subcategory in the
\* local budget list, with the saved amount, and no editing entry; a save
\* that fails leaves the list as it was; both end with the subcategory out
\* of the saving set.
C29_SaveBudgetLocalState ==
    [][\A i \in Savers :
          LET sub == saveRun'[i].subcategoryId
              numValue == ParseFloat(saveRun'[i].value)
          IN  /\ (saveRun'[i] # saveRun[i] /\ SaveResting(i)) =>
                     IF numValue.nan \/ numValue.num < 0
                     THEN /\ saveRun'[i].pc = "returned"
                          /\ storeVars' = storeVars
                          /\ monthBudgets' = monthBudgets
                          /\ savingBudgets' = savingBudgets
                          /\ editingBudgets'[sub] = saveRun'[i].value
                          /\ iofails' = iofails
                     ELSE /\ saveRun'[i].pc = "getMonth"
                          /\ sub \in savingBudgets'
              /\ (saveRun[i].pc = "upsert" /\ saveRun'[i].pc = "done") =>
                     /\ BagCardinality(EntriesOf(monthBudgets', sub)) = 1
                     /\ \A b \in DOMAIN EntriesOf(monthBudgets', sub) :
                           b.budget_amount = numValue.num
                     /\ \A o \in SubIds \ {sub} :
                           EntriesOf(monthBudgets', o) = EntriesOf(monthBudgets, o)
                     /\ sub \notin DOMAIN editingBudgets'
                     /\ sub \notin savingBudgets'
              /\ (saveRun[i].pc \in {"getMonth", "upsert"}
                      /\ saveRun'[i].pc = "failed") =>
                     /\ monthBudgets' = monthBudgets
                     /\ budgets' = budgets
                     /\ sub \notin savingBudgets']_vars

\* after a failed save, a save of amount 0 has replaced the entry of a
\* subcategory in a local list that holds another subcategory as well
C29_EntryReplacedAfterFailure ==
    \E i \in Savers :
        /\ saveRun[i].pc = "done"
        /\ iofails > 0
        /\ ParseFloat(saveRun[i].value).num = 0
        /\ BagCardinality(EntriesOf(monthBudgets, saveRun[i].subcategoryId)) = 1
        /\ BagCardinality(monthBudgets) = 2
        /\ \E b \in DOMAIN monthBudgets : b.budget_amount # 0
        /\ editingBudgets = <<>>
        /\ savingBudgets = {}

====
